---- MODULE Spec2Model ----
(***************************************************************************)
(* keep-to-joplin: convert_keep_notes (src/keep_to_joplin.py) as a state   *)
(* machine.  Text is a sequence of one-character strings, so that the      *)
(* sanitising, slugifying and numbering functions are computed character   *)
(* by character as the code computes them.  A JSON value is a record with  *)
(* a type tag t: null, bool, int, float, str, list, dict.                  *)
(***************************************************************************)
EXTENDS Integers, Sequences, FiniteSets, TLC

\* ------------------------------------------------------------------ text

DigitChars == <<"0", "1", "2", "3", "4", "5", "6", "7", "8", "9">>

UpperChars ==
  <<"A", "B", "C", "D", "E", "F", "G", "H", "I", "J", "K", "L", "M",
    "N", "O", "P", "Q", "R", "S", "T", "U", "V", "W", "X", "Y", "Z">>

LowerChars ==
  <<"a", "b", "c", "d", "e", "f", "g", "h", "i", "j", "k", "l", "m",
    "n", "o", "p", "q", "r", "s", "t", "u", "v", "w", "x", "y", "z">>

Range(s) == {s[i] : i \in DOMAIN s}

\* the characters of a string literal
Chars(str) == [i \in 1..Len(str) |-> SubSeq(str, i, i)]

\* str.strip() and \s: the whitespace of the modelled alphabet
Whitespace == {" ", "\t", "\n"}

\* \w of the regular expressions, on the modelled (ASCII) alphabet
WordChars == Range(DigitChars) \cup Range(UpperChars) \cup Range(LowerChars) \cup {"_"}

RECURSIVE LStripSet(_, _)
LStripSet(s, cs) ==
  IF s = <<>> \/ Head(s) \notin cs THEN s ELSE LStripSet(Tail(s), cs)

RECURSIVE RStripSet(_, _)
RStripSet(s, cs) ==
  IF s = <<>> \/ s[Len(s)] \notin cs THEN s
  ELSE RStripSet(SubSeq(s, 1, Len(s) - 1), cs)

\* str.strip()
Strip(s) == RStripSet(LStripSet(s, Whitespace), Whitespace)

RemoveSet(s, cs) == SelectSeq(s, LAMBDA c : c \notin cs)

\* str.lower() of one character
UpperSet == Range(UpperChars)

LowerChar(c) ==
  IF c \in UpperSet
  THEN LowerChars[CHOOSE i \in DOMAIN UpperChars : UpperChars[i] = c]
  ELSE c

Lower(s) == [i \in DOMAIN s |-> LowerChar(s[i])]

\* str(n) of an integer
RECURSIVE NatToStr(_)
NatToStr(n) ==
  IF n < 10 THEN <<DigitChars[n + 1]>>
  ELSE NatToStr(n \div 10) \o <<DigitChars[(n % 10) + 1]>>

IntToStr(n) == IF n < 0 THEN <<"-">> \o NatToStr(0 - n) ELSE NatToStr(n)

\* s.rfind(c), 1-based; 0 when c does not occur
RFind(s, c) ==
  LET hits == {i \in DOMAIN s : s[i] = c}
  IN  IF hits = {} THEN 0 ELSE CHOOSE i \in hits : \A j \in hits : j <= i

\* ------------------------------------------------------------------ names

\* the characters re.sub(r'[\\/:*"<>|]+', "", value) removes
IllegalChars == {"\\", "/", ":", "*", "\"", "<", ">", "|"}

sanitize_note_filename(value) ==
  LET stripped == Strip(value)
  IN  IF stripped = <<>> THEN <<>>
      ELSE RStripSet(RemoveSet(stripped, IllegalChars), {".", " "})

\* base_name of get_safe_filename: the sanitised title, or note-<created_usec>
SafeBaseName(title, created_usec) ==
  LET base_name == sanitize_note_filename(title)
  IN  IF base_name = <<>>
      THEN <<"n", "o", "t", "e", "-">> \o IntToStr(created_usec)
      ELSE base_name

\* f"{base_name}.md" for counter 1, f"{base_name} ({counter}).md" after
NoteFileName(base_name, counter) ==
  IF counter = 1 THEN base_name \o <<".", "m", "d">>
  ELSE base_name \o <<" ", "(">> \o IntToStr(counter) \o <<")", ".", "m", "d">>

\* the loop of get_safe_filename written as an if: one step and no more
SafeCounterOnce(base_name, counter, existing) ==
  IF NoteFileName(base_name, counter) \in existing THEN counter + 1 ELSE counter

\* the while loop of get_safe_filename: the first counter whose name is free
RECURSIVE SafeCounter(_, _, _)
SafeCounter(base_name, counter, existing) ==
  IF NoteFileName(base_name, counter) \in existing
  THEN SafeCounter(base_name, counter + 1, existing)
  ELSE counter

\* existing: the names os.path.exists finds in output_dir
get_safe_filename(title, existing, created_usec) ==
  LET base_name == SafeBaseName(title, created_usec)
  IN  NoteFileName(base_name, SafeCounter(base_name, 1, existing))

\* re.sub(r"[-\s]+", "-", value)
RECURSIVE CollapseHyphens(_)
CollapseHyphens(s) ==
  IF s = <<>> THEN <<>>
  ELSE IF Head(s) \in Whitespace \cup {"-"}
       THEN <<"-">> \o CollapseHyphens(LStripSet(Tail(s), Whitespace \cup {"-"}))
       ELSE <<Head(s)>> \o CollapseHyphens(Tail(s))

slugify(value) ==
  LET kept == SelectSeq(value, LAMBDA c : c \in WordChars \cup Whitespace \cup {"-"})
  IN  CollapseHyphens(Lower(Strip(kept)))

\* os.path.splitext: <<root, ext>>; a dot that only leads the last path
\* component starts no extension
splitext(p) ==
  LET sep == RFind(p, "/")
      dot == RFind(p, ".")
  IN  IF dot > sep /\ \E k \in (sep + 1)..(dot - 1) : p[k] # "."
      THEN <<SubSeq(p, 1, dot - 1), SubSeq(p, dot, Len(p))>>
      ELSE <<p, <<>>>>

\* os.path.basename
basename(p) == SubSeq(p, RFind(p, "/") + 1, Len(p))

AttFileName(base, ext, counter) ==
  IF counter = 1 THEN base \o ext
  ELSE base \o <<"-">> \o IntToStr(counter) \o ext

RECURSIVE AttCounter(_, _, _, _, _)
AttCounter(base, ext, counter, existing, used_names) ==
  IF AttFileName(base, ext, counter) \in used_names \cup existing
  THEN AttCounter(base, ext, counter + 1, existing, used_names)
  ELSE counter

\* get_unique_attachment_name without used_names.add(filename): the name is
\* checked and not reserved
get_unique_attachment_name_unreserved(original, existing, used_names) ==
  LET parts == splitext(original)
      slug  == slugify(parts[1])
      base  == IF slug = <<>>
               THEN <<"a", "t", "t", "a", "c", "h", "m", "e", "n", "t">>
               ELSE slug
      name  == AttFileName(base, parts[2],
                           AttCounter(base, parts[2], 1, existing, used_names))
  IN  [name |-> name, used_names |-> used_names]

\* existing: the names os.path.exists finds in target_dir.  The chosen name
\* is added to used_names before it is returned.
get_unique_attachment_name(original, existing, used_names) ==
  LET parts == splitext(original)
      slug  == slugify(parts[1])
      base  == IF slug = <<>>
               THEN <<"a", "t", "t", "a", "c", "h", "m", "e", "n", "t">>
               ELSE slug
      name  == AttFileName(base, parts[2],
                           AttCounter(base, parts[2], 1, existing, used_names))
  IN  [name |-> name, used_names |-> used_names \cup {name}]

\* ------------------------------------------------------------------ JSON

JNull == [t |-> "null"]
JBool(b) == [t |-> "bool", b |-> b]
JInt(i) == [t |-> "int", i |-> i]
\* a float, in tenths: JFloat(15) is 1.5
JFloat(tenths) == [t |-> "float", tenths |-> tenths]
JStr(s) == [t |-> "str", s |-> s]
JList(e) == [t |-> "list", e |-> e]
\* f: a function from the keys that are present to their values
JDict(f) == [t |-> "dict", f |-> f]

\* Python's truth value of a decoded JSON value
Truthy(v) ==
  CASE v.t = "null"  -> FALSE
    [] v.t = "bool"  -> v.b
    [] v.t = "int"   -> v.i # 0
    [] v.t = "float" -> v.tenths # 0
    [] v.t = "str"   -> v.s # <<>>
    [] v.t = "list"  -> v.e # <<>>
    [] v.t = "dict"  -> DOMAIN v.f # {}

\* dict.get(key, default)
Get(f, key, default) == IF key \in DOMAIN f THEN f[key] ELSE default

DigitVal(c) == (CHOOSE i \in DOMAIN DigitChars : DigitChars[i] = c) - 1

RECURSIVE DigitsToNat(_)
DigitsToNat(s) ==
  IF s = <<>> THEN 0
  ELSE DigitsToNat(SubSeq(s, 1, Len(s) - 1)) * 10 + DigitVal(s[Len(s)])

\* int(<str>): surrounding whitespace, an optional sign, digits with single
\* underscores between them; anything else is a ValueError
StrToInt(s) ==
  LET body   == Strip(s)
      signed == body # <<>> /\ Head(body) \in {"+", "-"}
      digs   == IF signed THEN Tail(body) ELSE body
      valid  == /\ digs # <<>>
                /\ \A i \in DOMAIN digs : digs[i] \in Range(DigitChars) \cup {"_"}
                /\ digs[1] # "_" /\ digs[Len(digs)] # "_"
                /\ \A i \in 1..(Len(digs) - 1) : ~(digs[i] = "_" /\ digs[i + 1] = "_")
      val    == DigitsToNat(RemoveSet(digs, {"_"}))
  IN  IF ~valid THEN [ok |-> FALSE, exc |-> "ValueError"]
      ELSE [ok |-> TRUE, val |-> IF signed /\ Head(body) = "-" THEN 0 - val ELSE val]

\* int(v) of a decoded JSON value
PyInt(v) ==
  CASE v.t = "int"   -> [ok |-> TRUE, val |-> v.i]
    [] v.t = "bool"  -> [ok |-> TRUE, val |-> IF v.b THEN 1 ELSE 0]
    [] v.t = "float" -> [ok |-> TRUE,
                         val |-> IF v.tenths >= 0 THEN v.tenths \div 10
                                 ELSE 0 - ((0 - v.tenths) \div 10)]
    [] v.t = "str"   -> StrToInt(v.s)
    [] OTHER         -> [ok |-> FALSE, exc |-> "TypeError"]

\* int(data.get(key, 0) or 0)
TimestampField(f, key) ==
  LET v == Get(f, key, JInt(0))
  IN  IF Truthy(v) THEN PyInt(v) ELSE [ok |-> TRUE, val |-> 0]

\* str(value) of the titles the model holds: str, int, bool, null
PyStr(v) ==
  CASE v.t = "str"  -> v.s
    [] v.t = "int"  -> IntToStr(v.i)
    [] v.t = "bool" -> IF v.b THEN <<"T", "r", "u", "e">> ELSE <<"F", "a", "l", "s", "e">>
    [] v.t = "null" -> <<"N", "o", "n", "e">>

\* The exception of open() and json.load that the except clause of
\* parse_note_json does not name, for a file that is a link to nothing
\* (open raises), that nests lists deeper than the recursion limit, or that
\* holds an integer of more digits than int() converts; these last two are
\* valid JSON.
UncaughtDecodeError(content) ==
  CASE content.form = "dangling_link" -> "FileNotFoundError"
    [] content.form = "deep_json"     -> "RecursionError"
    [] content.form = "long_int_json" -> "ValueError"

\* the try block of parse_note_json, with the mistake of letting the decoding
\* errors leave the function
DecodeJsonUncaught(content) ==
  IF content.form = "json" THEN [kind |-> "data", data |-> content.data]
  ELSE IF content.form = "bad_utf8"
       THEN [kind |-> "raise", exc |-> "UnicodeDecodeError"]
  ELSE IF content.form = "bad_json"
       THEN [kind |-> "raise", exc |-> "JSONDecodeError"]
  ELSE [kind |-> "raise", exc |-> UncaughtDecodeError(content)]

\* the try block of parse_note_json: open and json.load, None on
\* JSONDecodeError and UnicodeDecodeError, and every other exception leaves
\* the function
DecodeJson(content) ==
  IF content.form = "json" THEN [kind |-> "data", data |-> content.data]
  ELSE IF content.form \in {"bad_utf8", "bad_json"} THEN [kind |-> "none"]
  ELSE [kind |-> "raise", exc |-> UncaughtDecodeError(content)]

\* labels: the name of every entry of data["labels"] that has one
ParseLabels(f) ==
  IF "labels" \in DOMAIN f /\ f["labels"].t = "list"
  THEN LET named == SelectSeq(f["labels"].e,
                              LAMBDA label_obj : "name" \in DOMAIN label_obj.f)
       IN  [i \in DOMAIN named |-> named[i].f["name"]]
  ELSE <<>>

\* items: (text, is_checked) of every entry of data["listContent"]
ParseItems(f) ==
  IF "listContent" \in DOMAIN f /\ f["listContent"].t = "list"
  THEN [i \in DOMAIN f["listContent"].e |->
          [text    |-> Get(f["listContent"].e[i].f, "text", JStr(<<>>)),
           checked |-> Get(f["listContent"].e[i].f, "isChecked", JBool(FALSE))]]
  ELSE <<>>

\* A file's content is [form |-> "bad_utf8"], [form |-> "bad_json"],
\* [form |-> "json", data |-> <JSON value>], or one of the forms of
\* UncaughtDecodeError.  The result is [kind |-> "none"]
\* (return None), [kind |-> "raise", exc |-> ...] (an exception leaves the
\* function) or [kind |-> "note", note |-> ...].  The entries of labels and
\* listContent are JSON objects; the HTML fields (textContentHtml, textHtml)
\* and strip_tags are not modelled, and no input holds them.
parse_note_json(content) ==
  IF DecodeJson(content).kind # "data" THEN DecodeJson(content)
  ELSE IF DecodeJson(content).data.t # "dict" THEN [kind |-> "none"]
  ELSE
    LET f            == DecodeJson(content).data.f
        created_usec == TimestampField(f, "createdTimestampUsec")
        updated_usec == TimestampField(f, "userEditedTimestampUsec")
    IN  IF ~created_usec.ok THEN [kind |-> "raise", exc |-> created_usec.exc]
        ELSE IF ~updated_usec.ok THEN [kind |-> "raise", exc |-> updated_usec.exc]
        ELSE [kind |-> "note",
              note |-> [title        |-> Get(f, "title", JStr(<<>>)),
                        created_usec |-> created_usec.val,
                        updated_usec |-> updated_usec.val,
                        is_trashed   |-> Get(f, "isTrashed", JBool(FALSE)),
                        is_pinned    |-> Get(f, "isPinned", JBool(FALSE)),
                        is_archived  |-> Get(f, "isArchived", JBool(FALSE)),
                        color        |-> Get(f, "color", JStr(Chars("DEFAULT"))),
                        labels       |-> ParseLabels(f),
                        content      |-> Get(f, "textContent", JStr(<<>>)),
                        items        |-> ParseItems(f),
                        attachments  |-> Get(f, "attachments", JList(<<>>)),
                        annotations  |-> Get(f, "annotations", JList(<<>>))]]

\* ------------------------------------------------------------------ markdown

\* str.upper() of one character
UpperChar(c) ==
  IF c \in Range(LowerChars)
  THEN UpperChars[CHOOSE i \in DOMAIN LowerChars : LowerChars[i] = c]
  ELSE c

Upper(s) == [i \in DOMAIN s |-> UpperChar(s[i])]

\* sep.join(parts)
RECURSIVE Join(_, _)
Join(parts, sep) ==
  IF parts = <<>> THEN <<>>
  ELSE IF Len(parts) = 1 THEN parts[1]
  ELSE parts[1] \o sep \o Join(Tail(parts), sep)

\* s.startswith(prefix)
StartsWith(s, prefix) ==
  Len(s) >= Len(prefix) /\ SubSeq(s, 1, Len(prefix)) = prefix

\* COLOR_MAP, in the order of the source
ColorTable ==
  << <<"DEFAULT", "#ffffff">>, <<"RED", "#ff6d3f">>, <<"ORANGE", "#ff9b00">>,
     <<"YELLOW", "#ffda00">>, <<"GREEN", "#95d641">>, <<"TEAL", "#1ce8b5">>,
     <<"BLUE", "#3fc3ff">>, <<"GRAY", "#b8c4c9">>, <<"CERULEAN", "#82b1ff">>,
     <<"PURPLE", "#b388ff">>, <<"PINK", "#f8bbd0">>, <<"BROWN", "#d7ccc8">> >>

COLOR_MAP ==
  [name \in {Chars(ColorTable[i][1]) : i \in DOMAIN ColorTable} |->
     Chars(ColorTable[CHOOSE i \in DOMAIN ColorTable :
                        Chars(ColorTable[i][1]) = name][2])]

\* an integer in decimal, zero-padded to width digits (strftime %Y %m %d ...)
RECURSIVE Pad(_, _)
Pad(digits, width) ==
  IF Len(digits) >= width THEN digits ELSE Pad(<<"0">> \o digits, width)

\* the proleptic Gregorian date of a day counted from 1970-01-01
CivilFromDays(day) ==
  LET z   == day + 719468
      era == z \div 146097
      doe == z - era * 146097
      yoe == (doe - doe \div 1460 + doe \div 36524 - doe \div 146096) \div 365
      doy == doe - (365 * yoe + yoe \div 4 - yoe \div 100)
      mp  == (5 * doy + 2) \div 153
      d   == doy - (153 * mp + 2) \div 5 + 1
      m   == IF mp < 10 THEN mp + 3 ELSE mp - 9
      y   == yoe + era * 400 + (IF m <= 2 THEN 1 ELSE 0)
  IN  [year |-> y, month |-> m, day |-> d]

\* parse_timestamp: datetime.fromtimestamp(usec / 1_000_000, tz=utc) as
\* %Y-%m-%dT%H:%M:%SZ.  strftime drops the microseconds, so the second is the
\* floor.  The integers of the model are far inside the range of datetime,
\* where no exception is raised.
parse_timestamp(usec) ==
  LET secs == usec \div 1000000
      date == CivilFromDays(secs \div 86400)
      sod  == secs % 86400
  IN  Pad(NatToStr(date.year), 4) \o <<"-">> \o Pad(NatToStr(date.month), 2)
        \o <<"-">> \o Pad(NatToStr(date.day), 2) \o <<"T">>
        \o Pad(NatToStr(sod \div 3600), 2) \o <<":">>
        \o Pad(NatToStr((sod % 3600) \div 60), 2) \o <<":">>
        \o Pad(NatToStr(sod % 60), 2) \o <<"Z">>

\* body_lines without the empty strings at its end
RECURSIVE PopBlank(_)
PopBlank(body_lines) ==
  IF body_lines # <<>> /\ body_lines[Len(body_lines)] = <<>>
  THEN PopBlank(SubSeq(body_lines, 1, Len(body_lines) - 1))
  ELSE body_lines

\* body_lines.append("") if body_lines is not empty
BlankIfAny(body_lines) ==
  IF body_lines # <<>> THEN Append(body_lines, <<>>) ELSE body_lines

\* the value of a JSON number or boolean, in tenths: True is 1 and 1.0 is 1
NumTenths(v) ==
  CASE v.t = "bool"  -> IF v.b THEN 10 ELSE 0
    [] v.t = "int"   -> v.i * 10
    [] v.t = "float" -> v.tenths

\* a == b of two decoded JSON values: numbers and booleans by value, text
\* by its characters, lists and objects entry by entry
RECURSIVE PyEq(_, _)
PyEq(a, b) ==
  IF a.t \in {"bool", "int", "float"}
  THEN b.t \in {"bool", "int", "float"} /\ NumTenths(a) = NumTenths(b)
  ELSE IF a.t # b.t THEN FALSE
  ELSE CASE a.t = "null" -> TRUE
         [] a.t = "str"  -> a.s = b.s
         [] a.t = "list" -> /\ Len(a.e) = Len(b.e)
                            /\ \A i \in DOMAIN a.e : PyEq(a.e[i], b.e[i])
         [] a.t = "dict" -> /\ DOMAIN a.f = DOMAIN b.f
                            /\ \A k \in DOMAIN a.f : PyEq(a.f[k], b.f[k])

\* the three characters the source file holds between link and description
DashChars == <<"U+00E2", "U+20AC", "U+201D">>

\* one line of the Links section
LinkLine(ann) ==
  LET url         == Get(ann.f, "url", JNull)
      title       == Get(ann.f, "title", JNull)
      description == Get(ann.f, "description", JNull)
      link_text   == IF Truthy(title) THEN title
                     ELSE IF Truthy(description) THEN description ELSE url
      formatted   == Chars("- [") \o PyStr(link_text) \o Chars("](")
                       \o PyStr(url) \o Chars(")")
  IN  IF Truthy(description) /\ ~PyEq(description, link_text)
      THEN formatted \o <<" ">> \o DashChars \o <<" ">> \o PyStr(description)
      ELSE formatted

\* one line of the Attachments section; ref is (original_name, rel_path,
\* mimetype)
AttachmentLine(ref) ==
  IF StartsWith(ref[3].s, Chars("image/"))
  THEN Chars("![") \o ref[1] \o Chars("](") \o ref[2] \o Chars(")")
  ELSE Chars("[") \o ref[1] \o Chars("](") \o ref[2] \o Chars(")")

\* has_colored_background, for a color_label that is text
HasColoredBackground(color_label) ==
  color_label # Chars("DEFAULT") /\ color_label \in DOMAIN COLOR_MAP

\* (note.color or "DEFAULT") without .upper(): the color as it was given
ColorLabelAsGiven(color) ==
  IF Truthy(color) THEN color.s ELSE Chars("DEFAULT")

\* (note.color or "DEFAULT").upper()
ColorLabel(color) ==
  IF Truthy(color) THEN Upper(color.s) ELSE Chars("DEFAULT")

\* the lines of the rendered note before "\n".join, for a note whose fields
\* are of the types the attribute calls need
RenderLines(note, attachment_refs) ==
  LET color_label == ColorLabel(note.color)
      has_colored_background == HasColoredBackground(color_label)
      b1 == IF Truthy(note.content)
            THEN <<RStripSet(note.content.s, Whitespace), <<>>>>
            ELSE <<>>
      b2 == IF note.items # <<>>
            THEN b1 \o [i \in DOMAIN note.items |->
                          Chars("- [")
                            \o (IF Truthy(note.items[i].checked)
                                THEN <<"x">> ELSE <<" ">>)
                            \o Chars("] ") \o PyStr(note.items[i].text)]
                    \o << <<>> >>
            ELSE b1
      b3 == IF b2 # <<>> /\ b2[Len(b2)] = <<>>
            THEN SubSeq(b2, 1, Len(b2) - 1) ELSE b2
      b4 == IF note.labels # <<>>
            THEN Append(BlankIfAny(b3),
                        Chars("Labels: ")
                          \o Join([i \in DOMAIN note.labels |-> note.labels[i].s],
                                  Chars(", ")))
            ELSE b3
      b5 == IF attachment_refs # <<>>
            THEN Append(BlankIfAny(b4), Chars("Attachments:"))
                   \o [i \in DOMAIN attachment_refs |->
                         AttachmentLine(attachment_refs[i])]
            ELSE b4
      linked == IF Truthy(note.annotations)
                THEN SelectSeq(note.annotations.e,
                               LAMBDA ann : Truthy(Get(ann.f, "url", JNull)))
                ELSE <<>>
      b6 == IF linked # <<>>
            THEN Append(BlankIfAny(b5), Chars("Links:"))
                   \o [i \in DOMAIN linked |-> LinkLine(linked[i])]
            ELSE b5
      timestamp_source == IF note.updated_usec # 0 THEN note.updated_usec
                          ELSE note.created_usec
      timestamp_label  == IF note.updated_usec # 0 THEN Chars("Updated")
                          ELSE Chars("Created")
      footer == Chars("<small style=\"color: #555;\">") \o timestamp_label
                  \o Chars(": ") \o parse_timestamp(timestamp_source)
                  \o Chars("</small>")
      body_lines == PopBlank(b6)
  IN  IF has_colored_background
      THEN << Chars("<div class=\"keep-note\" style=\"background-color: ")
                \o COLOR_MAP[color_label]
                \o Chars("; color: black; padding: 16px; border-radius: 8px; ")
                \o Chars("margin-bottom: 16px;\">"),
              <<>> >>
             \o body_lines \o <<footer, Chars("</div>")>>
      ELSE Append(body_lines, footer)

\* note_to_markdown: [kind |-> "text", text |-> ...], or the exception that
\* leaves it.  note.content.rstrip() and note.color.upper() need text, and
\* ", ".join(note.labels) needs a list of text.
note_to_markdown(note, attachment_refs) ==
  IF \/ Truthy(note.content) /\ note.content.t # "str"
     \/ Truthy(note.color) /\ note.color.t # "str"
  THEN [kind |-> "raise", exc |-> "AttributeError"]
  ELSE IF \E i \in DOMAIN note.labels : note.labels[i].t # "str"
  THEN [kind |-> "raise", exc |-> "TypeError"]
  ELSE [kind |-> "text",
        text |-> Strip(Join(RenderLines(note, attachment_refs), <<"\n">>))
                   \o <<"\n">>]

\* ------------------------------------------------------------------ sort

\* key=lambda pair: (1 if pair[0].is_pinned else 0, int(pair[0].updated_usec or 0))
SortKey(pair) ==
  <<IF Truthy(pair.note.is_pinned) THEN 1 ELSE 0, pair.note.updated_usec>>

\* tuple comparison a < b
KeyLess(a, b) == a[1] < b[1] \/ (a[1] = b[1] /\ a[2] < b[2])

\* the insertion of an unstable sort: x goes before the elements of equal key
RECURSIVE InsertSortedUnstable(_, _)
InsertSortedUnstable(x, s) ==
  IF s = <<>> THEN <<x>>
  ELSE IF ~KeyLess(SortKey(Head(s)), SortKey(x)) THEN <<x>> \o s
       ELSE <<Head(s)>> \o InsertSortedUnstable(x, Tail(s))

\* x goes after every element whose key is not greater than its own
RECURSIVE InsertSorted(_, _)
InsertSorted(x, s) ==
  IF s = <<>> THEN <<x>>
  ELSE IF KeyLess(SortKey(x), SortKey(Head(s))) THEN <<x>> \o s
       ELSE <<Head(s)>> \o InsertSorted(x, Tail(s))

\* list.sort(key=...): ascending and stable
RECURSIVE SortNotesByKey(_)
SortNotesByKey(s) ==
  IF s = <<>> THEN <<>>
  ELSE InsertSorted(s[Len(s)], SortNotesByKey(SubSeq(s, 1, Len(s) - 1)))

\* ------------------------------------------------------------------ state

VARIABLES
  input_exists,           \* os.path.isdir(input_dir)
  files,                  \* the files os.walk yields, in discovery order
  src_files,              \* attachment paths that exist beside the notes
  include_trashed,
  include_archived,
  verbose,                \* print the messages when no callback is given
  log_callback,           \* a callback is given (TRUE) or None (FALSE)
  fs_faults,              \* the calls the file system of the run may fail:
                          \* copy (shutil.copy2), open, write
  out_exists,             \* output_dir exists
  out_files,              \* output_dir: file name -> content
  res_exists,             \* output_dir/resources exists
  res_files,              \* output_dir/resources: file name -> content
  dry_run,
  pc,                     \* call, scan, export, done, raised
  exc,                    \* the exception that left convert_keep_notes
  stats,
  idx,                    \* the file the discovery loop is at
  notes_to_export,
  pos,                    \* the note the export loop is at
  resources_ready,
  used_attachment_names,
  log,                    \* the messages that reached the callback or print
  journal,                \* one entry per note the export loop has handled
  dry_ret,                \* what the dry run ended with, kept for the real run
  input_edit,             \* MainWindow: the text of the input line
  output_edit,            \* the text of the output line
  dry_run_checkbox,
  start_button,           \* start_button.isEnabled()
  status_label,
  log_area,               \* the lines of the log pane
  warning,                \* the title of the last message box
  thread,                 \* self.thread: None or started
  worker,                 \* self.worker: None or created
  run_pc,                 \* ConversionWorker.run: none, queued, running, returned
  emitted,                \* the finished or error signal not yet delivered
  delivered,              \* the log signals the main thread has delivered
  runs,                   \* conversions started, finished and failed so far
  pass,                   \* where in a pass of its loop the worker's call is
  loop,                   \* what the call has of the note's attachments there
  window                  \* open, or closed: the event loop has ended

inputs == <<input_exists, files, src_files, include_trashed, include_archived,
            verbose, log_callback, fs_faults>>
fs == <<out_exists, out_files, res_exists, res_files>>
locals == <<stats, idx, notes_to_export, pos, resources_ready,
            used_attachment_names, log, journal>>
gui == <<input_edit, output_edit, dry_run_checkbox, start_button, status_label,
         log_area, warning, thread, worker, run_pc, emitted, delivered, runs,
         pass, loop, window>>
vars == <<inputs, fs, dry_run, pc, exc, locals, dry_ret, gui>>

ZeroStats ==
  [processed |-> 0, exported |-> 0, skipped_trashed |-> 0,
   skipped_archived |-> 0, skipped_invalid |-> 0, errors |-> 0]

NoFiles == [x \in {} |-> 0]

\* a file created (or replaced) in a directory
Put(dir, name, content) ==
  [x \in DOMAIN dir \cup {name} |-> IF x = name THEN content ELSE dir[x]]

\* log(message) of convert_keep_notes: the callback when one is given, else
\* print when verbose, else the message is dropped.  lg holds the messages
\* that reached either; the callback is one that returns.
Log(lg, message) ==
  IF log_callback \/ verbose THEN Append(lg, message) ELSE lg

\* file.lower().endswith(".json")
IsJsonName(name) ==
  /\ Len(name) >= 5
  /\ Lower(SubSeq(name, Len(name) - 4, Len(name))) = <<".", "j", "s", "o", "n">>

\* os.makedirs(output_dir) without the dry_run test
MakeOutputDirAlways(dry, exists) == TRUE

\* if not dry_run: os.makedirs(output_dir, exist_ok=True)
MakeOutputDir(dry, exists) == IF ~dry THEN TRUE ELSE exists

\* the two policy checks in the other order
FilterDecisionArchivedFirst(note, inc_trashed, inc_archived) ==
  IF Truthy(note.is_archived) /\ ~inc_archived THEN "skip_archived"
  ELSE IF Truthy(note.is_trashed) /\ ~inc_trashed THEN "skip_trashed"
  ELSE "queue"

\* the two policy checks of the discovery loop, in the code's order
FilterDecision(note, inc_trashed, inc_archived) ==
  IF Truthy(note.is_trashed) /\ ~inc_trashed THEN "skip_trashed"
  ELSE IF Truthy(note.is_archived) /\ ~inc_archived THEN "skip_archived"
  ELSE "queue"

\* ------------------------------------------------------------------ export

\* what a shutil.copy2 that raises OSError leaves at the destination: nothing
\* (the source or the destination does not open), a truncated file (a read or
\* a write fails), or the whole file (copyfile has returned and copystat
\* fails on the times, the mode or the extended attributes)
CopyLeaves == {"nothing", "truncated", "whole"}

\* lines 447 and 466-468: the reference to the attachment copied as dest_name
AttRef(att, dest_name) ==
  <<basename(Get(att.f, "filePath", JNull).s),
    <<"r", "e", "s", "o", "u", "r", "c", "e", "s", "/">> \o dest_name,
    Get(att.f, "mimetype", JStr(<<>>))>>

\* One pass of the attachment loop.  st carries what the loop changes;
\* copy_fails says that shutil.copy2, if it is reached, raises OSError, and
\* leaves, one of CopyLeaves, what it has left at the destination by then.
AttStep(att, copy_fails, leaves, dry, st) ==
  LET file_rel == Get(att.f, "filePath", JNull)
  IN  IF ~Truthy(file_rel) THEN st
      ELSE IF file_rel.s \notin src_files
      THEN [st EXCEPT !.log = Log(@, "AttachmentMissing"),
                      !.missing = @ + 1]
      ELSE
        LET alloc    == get_unique_attachment_name(
                          file_rel.s, DOMAIN st.res_files, st.used_names)
            ref      == AttRef(att, alloc.name)
            s1       == [st EXCEPT !.used_names = alloc.used_names,
                                   !.att_names = Append(@, alloc.name)]
        IN  IF dry
            THEN [s1 EXCEPT !.log = Log(@, "DryRunWouldCopy"),
                            !.refs = Append(@, ref)]
            ELSE
              LET s2 == [s1 EXCEPT !.res_exists = TRUE, !.ready = TRUE]
              IN  IF copy_fails
                  THEN [s2 EXCEPT !.res_files =
                                     IF leaves = "nothing" THEN @
                                     ELSE Put(@, alloc.name,
                                              [from |-> file_rel.s,
                                               whole |-> leaves = "whole"]),
                                  !.log = Log(@, "AttachmentCopyFailed"),
                                  !.errors = @ + 1,
                                  !.copy_failed = @ + 1]
                  ELSE [s2 EXCEPT !.res_files =
                                     Put(@, alloc.name,
                                         [from |-> file_rel.s, whole |-> TRUE]),
                                  !.log = Log(@, "CopiedAttachment"),
                                  !.refs = Append(@, ref)]

RECURSIVE AttLoop(_, _, _, _, _)
AttLoop(atts, k, failing, dry, st) ==
  IF k > Len(atts) THEN st
  ELSE AttLoop(atts, k + 1, failing, dry,
               AttStep(atts[k], k \in DOMAIN failing,
                       IF k \in DOMAIN failing THEN failing[k] ELSE "nothing",
                       dry, st))

\* the attachments whose copy is attempted and may fail: a real run on a
\* file system that fails copies, a path, a source file
CopyPositions(note, dry) ==
  IF dry \/ "copy" \notin fs_faults \/ ~Truthy(note.attachments) THEN {}
  ELSE {k \in DOMAIN note.attachments.e :
          LET file_rel == Get(note.attachments.e[k].f, "filePath", JNull)
          IN  Truthy(file_rel) /\ file_rel.s \in src_files}

\* U+D800, a lone surrogate: json.load decodes the escape \ud800 to it, and
\* UTF-8 has no encoding for it
Surrogate == "U+D800"

\* str.encode("utf-8") returns: open() of a file name and f.write() of a text
\* raise UnicodeEncodeError, which is no OSError, when it does not
Utf8Encodable(text) == Surrogate \notin Range(text)

\* what the file system does to open(output_path, "w") and f.write: both
\* succeed, open raises OSError, or the file is made and the write (or the
\* flush at close) raises OSError
WriteOutcomes(dry) ==
  IF dry THEN {"ok"}
  ELSE {"ok"} \cup (IF "open" \in fs_faults THEN {"open_fails"} ELSE {})
              \cup (IF "write" \in fs_faults THEN {"write_fails"} ELSE {})

\* the lengths of text a write that raises OSError may have put in the file:
\* any prefix, from nothing to all of it (the close fails after the flush).
\* The texts written on a file system that fails writes are ASCII, so that a
\* character is a byte.
KeptLengths(text) == 0..Len(text)

\* stats["exported"] += 1 reached also after a failed write
NoteCountedAlways(dry, write_fails) == TRUE

\* whether the note reaches stats["exported"] += 1: a dry run writes
\* nothing, a real run whose write raises OSError continues with the next note
NoteCounted(dry, write_fails) == dry \/ ~write_fails

\* whether the Markdown file is written
NoteWritten(dry, write_fails) == ~dry /\ ~write_fails

\* MainWindow.__init__: empty lines, unchecked boxes, status Idle, no thread
\* and no worker
NoRuns == [started |-> 0, finished |-> 0, failed |-> 0]

\* the places of the call between two steps: top, the head of a loop or the
\* first line of the call; made (line 380, after os.makedirs of the output
\* directory); parse (line 402); att (line 435, before attachment k);
\* att_dir (line 457, after os.makedirs of resources); att_open (in
\* shutil.copy2, the destination made and no data in it yet); att_data (in
\* shutil.copy2, the data copied); att_failed (line 463); att_ref (line 466);
\* opened (line 482, after open); written (line 483, the file closed);
\* write_raised (line 485, in the handler of OSError from f.write or the
\* close); count (line 489); write_failed (line 486)
Places == {"top", "made", "parse", "att", "att_dir", "att_open", "att_data",
           "att_failed", "att_ref", "opened", "written", "write_raised",
           "count", "write_failed"}

\* the call is at the head of a loop
NoPass == [at |-> "top", k |-> 0]

\* no attachment of the note is done: attachment_refs is empty.  ref is the
\* reference line 466 is about to append, file the name of the note file
\* that open has made
NoLoop ==
  [refs |-> <<>>, ref |-> <<>>, att_names |-> <<>>, missing |-> 0,
   copy_failed |-> 0, file |-> <<>>]

GuiIdle ==
  /\ input_edit = <<>>
  /\ output_edit = <<>>
  /\ dry_run_checkbox = FALSE
  /\ start_button = TRUE
  /\ status_label = "Idle"
  /\ log_area = <<>>
  /\ warning = "none"
  /\ thread = "None"
  /\ worker = "None"
  /\ run_pc = "none"
  /\ emitted = "none"
  /\ delivered = 0
  /\ runs = NoRuns
  /\ pass = NoPass
  /\ loop = NoLoop
  /\ window = "open"

\* ------------------------------------------------------------------ actions

\* convert_keep_notes with os.makedirs(output_dir) moved before the test of
\* input_dir
BeginMakedirsFirst ==
  /\ pc = "call"
  /\ out_exists' = MakeOutputDir(dry_run, out_exists)
  /\ IF ~input_exists
     THEN /\ pc' = "raised"
          /\ exc' = "FileNotFoundError"
          /\ UNCHANGED <<stats, idx, notes_to_export, log>>
     ELSE /\ stats' = ZeroStats
          /\ log' = Log(<<>>, "Scanning")
          /\ notes_to_export' = <<>>
          /\ idx' = 1
          /\ pc' = "scan"
          /\ exc' = exc
  /\ UNCHANGED <<inputs, out_files, res_exists, res_files, dry_run, pos,
                 resources_ready, used_attachment_names, journal, dry_ret, gui>>

\* convert_keep_notes up to the discovery loop
Begin ==
  /\ pc = "call"
  /\ IF ~input_exists
     THEN /\ pc' = "raised"
          /\ exc' = "FileNotFoundError"
          /\ UNCHANGED <<out_exists, stats, idx, notes_to_export, log>>
     ELSE /\ out_exists' = MakeOutputDir(dry_run, out_exists)
          /\ stats' = ZeroStats
          /\ log' = Log(<<>>, "Scanning")
          /\ notes_to_export' = <<>>
          /\ idx' = 1
          /\ pc' = "scan"
          /\ exc' = exc
  /\ UNCHANGED <<inputs, out_files, res_exists, res_files, dry_run, pos,
                 resources_ready, used_attachment_names, journal, dry_ret, gui>>

\* a .json file of the discovery loop from parse_note_json on (lines
\* 402-418); counted and logged are stats and the messages as line 400 has
\* left them
ScanOutcome(counted, logged) ==
  LET file     == files[idx]
      parsed   == parse_note_json(file.content)
      decision == FilterDecision(parsed.note, include_trashed, include_archived)
  IN  IF parsed.kind = "raise"
      THEN /\ pc' = "raised"
           /\ exc' = parsed.exc
           /\ stats' = counted
           /\ log' = logged
           /\ UNCHANGED <<idx, notes_to_export>>
      ELSE IF parsed.kind = "none"
      THEN /\ stats' = [counted EXCEPT !.skipped_invalid = @ + 1]
           /\ log' = Log(logged, "InvalidOrEmptyJson")
           /\ idx' = idx + 1
           /\ UNCHANGED <<notes_to_export, pc, exc>>
      ELSE IF decision = "skip_trashed"
      THEN /\ stats' = [counted EXCEPT !.skipped_trashed = @ + 1]
           /\ log' = Log(logged, "SkippedTrashed")
           /\ idx' = idx + 1
           /\ UNCHANGED <<notes_to_export, pc, exc>>
      ELSE IF decision = "skip_archived"
      THEN /\ stats' = [counted EXCEPT !.skipped_archived = @ + 1]
           /\ log' = Log(logged, "SkippedArchived")
           /\ idx' = idx + 1
           /\ UNCHANGED <<notes_to_export, pc, exc>>
      ELSE /\ notes_to_export' =
                Append(notes_to_export, [note |-> parsed.note, src |-> idx])
           /\ stats' = counted
           /\ log' = logged
           /\ idx' = idx + 1
           /\ UNCHANGED <<pc, exc>>

\* one file of the discovery loop
ScanFile ==
  /\ pc = "scan"
  /\ idx <= Len(files)
  /\ IF ~IsJsonName(files[idx].name)
     THEN /\ idx' = idx + 1
          /\ UNCHANGED <<stats, notes_to_export, log, pc, exc>>
     ELSE ScanOutcome([stats EXCEPT !.processed = @ + 1],
                      Log(log, "Processing"))
  /\ UNCHANGED <<inputs, fs, dry_run, pos, resources_ready,
                 used_attachment_names, journal, dry_ret, gui>>

\* after the discovery loop: the sort, and the export loop's initial state
SortNotes ==
  /\ pc = "scan"
  /\ idx > Len(files)
  /\ notes_to_export' = SortNotesByKey(notes_to_export)
  /\ resources_ready' = FALSE
  /\ used_attachment_names' = {}
  /\ pos' = 1
  /\ pc' = "export"
  /\ UNCHANGED <<inputs, fs, dry_run, exc, stats, idx, log, journal, dry_ret,
                 gui>>

\* what the export loop has done with the note pair: existing is the files
\* of the output directory when the note was named, st what the attachment
\* loop has left
NoteRecord(pair, st, existing, safe_filename, written, counted, unfinished) ==
  [src         |-> pair.src,
   pinned      |-> Truthy(pair.note.is_pinned),
   updated     |-> pair.note.updated_usec,
   base_name   |-> SafeBaseName(PyStr(pair.note.title), pair.note.created_usec),
   counter     |-> SafeCounter(SafeBaseName(PyStr(pair.note.title),
                                            pair.note.created_usec),
                               1, existing),
   filename    |-> safe_filename,
   written     |-> written,
   exported    |-> counted,
   unfinished  |-> unfinished,
   refs        |-> st.refs,
   att_names   |-> st.att_names,
   missing     |-> st.missing,
   copy_failed |-> st.copy_failed]

\* one note of the export loop from note_to_markdown on (lines 470-489).
\* st: what the attachment loop has left; outcome: what open and f.write of
\* the note do; kept: how much of the text a failed write has left in the
\* file.  whole_pass: the step goes on to the head of the loop, through
\* stats["errors"] += 1 or stats["exported"] += 1; else it ends when the
\* message is given.
\* UnicodeEncodeError, from open for a file name and from f.write for a text
\* that UTF-8 cannot encode, passes the except OSError clause and leaves
\* convert_keep_notes; f.write raises it after open has made the file.
ExportOutcome(st, outcome, whole_pass) ==
  LET pair == notes_to_export[pos]
      note == pair.note
      title         == PyStr(note.title)
      write_fails   == outcome # "ok"
      written       == NoteWritten(dry_run, write_fails)
      counted       == NoteCounted(dry_run, write_fails)
      empty_file    == [src |-> pair.src, refs |-> <<>>, md |-> <<>>]
      Cut(text, k)  == [src |-> pair.src, refs |-> <<>>,
                        md |-> SubSeq(text, 1, k)]
  IN  \E safe_filename \in {get_safe_filename(title, DOMAIN out_files,
                                              note.created_usec)},
         md_content \in {note_to_markdown(note, st.refs)} :
      \E kept \in IF outcome = "write_fails" /\ md_content.kind = "text"
                  THEN KeptLengths(md_content.text) ELSE {0} :
      /\ res_exists' = st.res_exists
      /\ res_files' = st.res_files
      /\ resources_ready' = st.ready
      /\ used_attachment_names' = st.used_names
      /\ IF md_content.kind = "raise"
         THEN /\ pc' = "raised"
              /\ exc' = md_content.exc
              /\ stats' = [stats EXCEPT !.errors = st.errors]
              /\ log' = st.log
              /\ UNCHANGED <<out_files, journal, pos>>
         ELSE IF ~dry_run /\ ~Utf8Encodable(safe_filename)
         THEN /\ pc' = "raised"
              /\ exc' = "UnicodeEncodeError"
              /\ stats' = [stats EXCEPT !.errors = st.errors]
              /\ log' = st.log
              /\ UNCHANGED <<out_files, journal, pos>>
         ELSE IF /\ ~dry_run
                 /\ outcome # "open_fails"
                 /\ ~Utf8Encodable(md_content.text)
         THEN /\ pc' = "raised"
              /\ exc' = "UnicodeEncodeError"
              /\ stats' = [stats EXCEPT !.errors = st.errors]
              /\ log' = st.log
              /\ out_files' = Put(out_files, safe_filename, empty_file)
              /\ UNCHANGED <<journal, pos>>
         ELSE /\ out_files' =
                   IF written
                   THEN Put(out_files, safe_filename,
                            [src |-> pair.src, refs |-> st.refs,
                             md |-> md_content.text])
                   ELSE IF outcome = "write_fails"
                   THEN Put(out_files, safe_filename,
                            Cut(md_content.text, kept))
                   ELSE out_files
              /\ stats' =
                   IF whole_pass
                   THEN [stats EXCEPT
                           !.errors = st.errors
                                        + (IF ~dry_run /\ write_fails THEN 1 ELSE 0),
                           !.exported = @ + (IF counted THEN 1 ELSE 0)]
                   ELSE [stats EXCEPT !.errors = st.errors]
              /\ log' = Log(st.log,
                            IF dry_run THEN "DryRunWouldWrite"
                            ELSE IF write_fails THEN "ErrorWriting" ELSE "Wrote")
              /\ journal' = Append(journal,
                   NoteRecord(pair, st, DOMAIN out_files, safe_filename,
                              written, counted, outcome = "write_fails"))
              /\ pos' = IF whole_pass THEN pos + 1 ELSE pos
              /\ UNCHANGED <<pc, exc>>

\* what the attachment loop works on when it begins a note
LoopState(refs, att_names, missing, copy_failed) ==
  [used_names |-> used_attachment_names,
   ready |-> resources_ready,
   res_exists |-> res_exists,
   res_files |-> res_files,
   refs |-> refs,
   att_names |-> att_names,
   errors |-> stats.errors,
   log |-> log,
   missing |-> missing,
   copy_failed |-> copy_failed]

\* one note of the export loop.  failing: the attachments whose copy raises
\* OSError, each with what the copy has left at the destination.
ExportNote ==
  /\ pc = "export"
  /\ pos <= Len(notes_to_export)
  /\ \E positions \in SUBSET CopyPositions(notes_to_export[pos].note, dry_run),
        outcome \in WriteOutcomes(dry_run) :
     \E failing \in [positions -> CopyLeaves] :
       LET note == notes_to_export[pos].note
           st0  == LoopState(<<>>, <<>>, 0, 0)
       IN  \E st \in {IF Truthy(note.attachments)
                      THEN AttLoop(note.attachments.e, 1, failing, dry_run,
                                   st0)
                      ELSE st0} :
             ExportOutcome(st, outcome, TRUE)
  /\ UNCHANGED <<inputs, out_exists, dry_run, idx, notes_to_export, dry_ret,
                 gui>>

\* return stats
Return ==
  /\ pc = "export"
  /\ pos > Len(notes_to_export)
  /\ pc' = "done"
  /\ UNCHANGED <<inputs, fs, dry_run, exc, locals, dry_ret, gui>>

NoRun ==
  [pc |-> "none", exc |-> "", stats |-> ZeroStats, journal |-> <<>>, log |-> <<>>,
   res_existed |-> FALSE]

\* Two calls of convert_keep_notes: once with dry_run and then, with the
\* same other arguments (the same sink of messages among them) and on the
\* same directories, without.  What the dry run ended with is kept in
\* dry_ret, and with it whether resources/ exists when the real run is
\* called.
InvokeReal ==
  /\ pc \in {"done", "raised"}
  /\ dry_run
  /\ dry_ret' = [pc |-> pc, exc |-> exc, stats |-> stats, journal |-> journal,
                 log |-> log, res_existed |-> res_exists]
  /\ dry_run' = FALSE
  /\ pc' = "call"
  /\ exc' = ""
  /\ stats' = ZeroStats
  /\ idx' = 0
  /\ notes_to_export' = <<>>
  /\ pos' = 0
  /\ resources_ready' = FALSE
  /\ used_attachment_names' = {}
  /\ log' = <<>>
  /\ journal' = <<>>
  /\ UNCHANGED <<inputs, fs, gui>>

Next == Begin \/ ScanFile \/ SortNotes \/ ExportNote \/ Return \/ InvokeReal

\* ------------------------------------------------------------------ inputs

\* the most files in an input tree of the ordering, naming, policy and
\* suffix inputs
MaxFiles == 3
\* the most files in an input tree of the parsing inputs
MaxParseFiles == 2
\* the most notes in an input tree of the attachment inputs
MaxAttNotes == 2

SeqsUpTo(S, n) == UNION {[1..k -> S] : k \in 0..n}

DotJson == <<".", "j", "s", "o", "n">>

NoteContent(f) == [form |-> "json", data |-> JDict(f)]

JsonFile(content) == [ext |-> DotJson, content |-> content]

\* the i-th file discovered is named <i><ext>
Named(s) ==
  [i \in DOMAIN s |-> [name |-> IntToStr(i) \o s[i].ext, content |-> s[i].content]]

Input(fl, sources, inc_trashed, inc_archived, o_files, r_exists, r_files) ==
  [input_exists |-> TRUE, files |-> Named(fl), src_files |-> sources,
   include_trashed |-> inc_trashed, include_archived |-> inc_archived,
   verbose |-> FALSE, log_callback |-> TRUE, fs_faults |-> {},
   out_exists |-> (r_exists \/ DOMAIN o_files # {}), out_files |-> o_files,
   res_exists |-> r_exists, res_files |-> r_files]

\* the input on a file system that may fail the calls of kinds
Faulty(inp, kinds) == [inp EXCEPT !.fs_faults = kinds]

AllFaults == {"copy", "open", "write"}

TitleB == JStr(<<"B">>)

\* a file that was in the output directory before the run
OldNote == [src |-> 0, refs |-> <<>>, md |-> <<>>]
OldResource == [from |-> <<>>, whole |-> TRUE]

\* ordering: pinned or not, three update times, one title
OrderContents ==
  {NoteContent([title |-> TitleB, isPinned |-> JBool(p),
                userEditedTimestampUsec |-> JInt(u)]) :
     p \in BOOLEAN, u \in {50, 100, 200}}

OrderInputs ==
  {Input(fl, {}, FALSE, FALSE, NoFiles, FALSE, NoFiles) :
     fl \in SeqsUpTo({JsonFile(c) : c \in OrderContents}, MaxFiles)}

\* naming: titles that sanitise to B, a title that is another's second
\* name, and an empty title; an output directory that holds files already
NameTitles ==
  {<<"B">>, <<" ", "B", ":", ".">>, <<"B", " ", "(", "2", ")">>, <<>>}

NameContents == {NoteContent([title |-> JStr(t)]) : t \in NameTitles}

NameOutputs ==
  {NoFiles,
   Put(NoFiles, <<"B", ".", "m", "d">>, OldNote),
   Put(NoFiles, <<"B", " ", "(", "2", ")", ".", "m", "d">>, OldNote)}

NameInputs ==
  {Faulty(Input(fl, {}, FALSE, FALSE, o, FALSE, NoFiles), {"open"}) :
     fl \in SeqsUpTo({JsonFile(c) : c \in NameContents}, MaxFiles),
     o \in NameOutputs}

\* naming on a file system that may fail open and write: a note of no
\* title, a note titled B and two of them, beside an output directory that
\* is empty or holds B.md
WriteFaultFiles ==
  {<<JsonFile(NoteContent([title |-> JStr(<<>>)]))>>,
   <<JsonFile(NoteContent([title |-> TitleB]))>>,
   <<JsonFile(NoteContent([title |-> TitleB])),
     JsonFile(NoteContent([title |-> TitleB]))>>}

WriteFaultInputs ==
  {Faulty(Input(fl, {}, FALSE, FALSE, o, FALSE, NoFiles), {"open", "write"}) :
     fl \in WriteFaultFiles,
     o \in {NoFiles, Put(NoFiles, <<"B", ".", "m", "d">>, OldNote)}}

\* policy: trashed and archived notes under the four option settings
FilterContents ==
  {NoteContent([title |-> TitleB, isTrashed |-> JBool(t), isArchived |-> JBool(a)]) :
     t \in BOOLEAN, a \in BOOLEAN}

FilterInputs ==
  {Faulty(Input(fl, {}, it, ia, NoFiles, FALSE, NoFiles), {"open"}) :
     fl \in SeqsUpTo({JsonFile(c) : c \in FilterContents}, MaxFiles),
     it \in BOOLEAN, ia \in BOOLEAN}

\* parsing: undecodable files, JSON that is no object, and objects whose
\* timestamp fields hold the JSON types
CreatedValues ==
  {JNull, JInt(5), JStr(<<"1", "2">>), JStr(<<"a", "b", "c">>), JList(<<>>),
   JList(<<JInt(1)>>), JDict([a |-> JNull])}

UpdatedValues == {JNull, JInt(9), JStr(<<"a", "b", "c">>)}

ParseContents ==
  {[form |-> "bad_utf8"], [form |-> "bad_json"],
   [form |-> "json", data |-> JList(<<>>)],
   [form |-> "json", data |-> JStr(<<"B">>)]}
  \cup {NoteContent([title |-> TitleB, createdTimestampUsec |-> v]) :
          v \in CreatedValues}
  \cup {NoteContent([title |-> TitleB, userEditedTimestampUsec |-> v]) :
          v \in UpdatedValues}

ParseInputs ==
  {Input(fl, {}, FALSE, FALSE, NoFiles, FALSE, NoFiles) :
     fl \in SeqsUpTo({JsonFile(c) : c \in ParseContents}, MaxParseFiles)}

\* attachments: a.png and A.png exist beside the notes, m.png does not
ImagePng == JStr(<<"i", "m", "a", "g", "e", "/", "p", "n", "g">>)
PathA == <<"a", ".", "p", "n", "g">>
PathUpperA == <<"A", ".", "p", "n", "g">>
PathM == <<"m", ".", "p", "n", "g">>

Att(path) == JDict([filePath |-> JStr(path), mimetype |-> ImagePng])

AttLists ==
  {<<Att(PathA)>>, <<Att(PathM)>>, <<Att(PathA), Att(PathUpperA)>>,
   <<Att(PathM), Att(PathA)>>, <<JDict([mimetype |-> ImagePng]), Att(PathA)>>}

AttContents ==
  {NoteContent([title |-> TitleB, attachments |-> JList(l)]) : l \in AttLists}

AttInputs ==
  {Faulty(Input(fl, {PathA, PathUpperA}, FALSE, FALSE, NoFiles, r # NoFiles, r),
          {"copy"}) :
     fl \in SeqsUpTo({JsonFile(c) : c \in AttContents}, MaxAttNotes),
     r \in {NoFiles, Put(NoFiles, PathA, OldResource)}}

\* attachments on a file system that may fail every call: a note with one
\* attachment, and one with an attachment that is missing before one that is
\* there, alone and after a note without attachments
AttFaultContents ==
  {NoteContent([title |-> TitleB, attachments |-> JList(l)]) :
     l \in {<<Att(PathA)>>, <<Att(PathM), Att(PathA)>>}}

AttFaultInputs ==
  {Faulty(Input(fl, {PathA}, FALSE, FALSE, NoFiles, FALSE, NoFiles), AllFaults) :
     fl \in {<<JsonFile(c)>> : c \in AttFaultContents}
             \cup {<<JsonFile(NoteContent([title |-> TitleB])),
                     JsonFile(NoteContent(
                       [title |-> TitleB,
                        attachments |-> JList(<<Att(PathM), Att(PathA)>>)]))>>}}

\* suffixes: the discovery loop takes .json in any case and nothing else
SuffixFiles ==
  {[ext |-> e, content |-> NoteContent([title |-> TitleB])] :
     e \in {DotJson, <<".", "J", "S", "O", "N">>, <<".", "t", "x", "t">>}}

SuffixInputs ==
  {Input(fl, {}, FALSE, FALSE, NoFiles, FALSE, NoFiles) :
     fl \in SeqsUpTo(SuffixFiles, MaxFiles)}

\* colors: the twelve names of COLOR_MAP, names in other cases, a name
\* with a space before it, a name COLOR_MAP does not hold, the empty string,
\* null, and a number
ColorValues ==
  {JStr(Chars(ColorTable[i][1])) : i \in DOMAIN ColorTable}
    \cup {JStr(Chars("red")), JStr(Chars("Pink")), JStr(Chars(" RED")),
          JStr(Chars("MAGENTA")), JStr(<<>>), JNull, JInt(5)}

\* the fields that say the color: none, or "color" with one of the values
ColorFields == {NoFiles} \cup {[color |-> c] : c \in ColorValues}

\* the fields that make the body: none; text that ends in blank lines; a
\* checklist; text, checklist, labels, an attachment and two links
BodyFields ==
  {NoFiles,
   [textContent |-> JStr(Chars("hi \n\n"))],
   [listContent |->
      JList(<<JDict([text |-> JStr(Chars("buy milk")), isChecked |-> JBool(FALSE)]),
              JDict([text |-> JStr(Chars("pay rent")), isChecked |-> JBool(TRUE)])>>)],
   [textContent |-> JStr(Chars("a\nb")),
    listContent |-> JList(<<JDict([text |-> JStr(Chars("c"))])>>),
    labels      |-> JList(<<JDict([name |-> JStr(Chars("l1"))]),
                            JDict([x |-> JNull]),
                            JDict([name |-> JStr(Chars("l2"))])>>),
    attachments |-> JList(<<Att(PathA)>>),
    annotations |-> JList(<<JDict([url |-> JStr(Chars("u")),
                                   title |-> JStr(Chars("T")),
                                   description |-> JStr(Chars("D"))]),
                            JDict([title |-> JStr(Chars("T"))]),
                            JDict([url |-> JStr(Chars("v"))]),
                            JDict([url |-> JStr(Chars("w")),
                                   title |-> JInt(1),
                                   description |-> JBool(TRUE)]),
                            JDict([url |-> JStr(Chars("x")),
                                   title |-> JStr(Chars("1")),
                                   description |-> JInt(1)])>>)]}

\* the timestamp fields: none, created only, both
TimeFields ==
  {NoFiles,
   [createdTimestampUsec |-> JInt(61000000)],
   [createdTimestampUsec |-> JInt(5), userEditedTimestampUsec |-> JInt(1999999)]}

ColorContents ==
  {NoteContent([title |-> TitleB] @@ c @@ b @@ t) :
     c \in ColorFields, b \in BodyFields, t \in TimeFields}

ColorInputs ==
  {Faulty(Input(<<JsonFile(c)>>, {PathA}, FALSE, FALSE, NoFiles, FALSE, NoFiles),
          {"copy", "open"}) :
     c \in ColorContents}

\* an input directory that does not exist
MissingInput ==
  [Input(<<>>, {}, FALSE, FALSE, NoFiles, FALSE, NoFiles)
     EXCEPT !.input_exists = FALSE]

\* decoding: files on which open or json.load raises what parse_note_json
\* does not catch, beside a note and a file that is skipped
DecodeContents ==
  {NoteContent([title |-> TitleB]), [form |-> "bad_json"],
   [form |-> "dangling_link"], [form |-> "deep_json"],
   [form |-> "long_int_json"]}

DecodeInputs ==
  {Input(fl, {}, FALSE, FALSE, NoFiles, FALSE, NoFiles) :
     fl \in SeqsUpTo({JsonFile(c) : c \in DecodeContents}, MaxParseFiles)}

\* encoding: a text and a title that hold a lone surrogate, beside notes of
\* the same title
EncodeContents ==
  {NoteContent([title |-> TitleB]),
   NoteContent([title |-> TitleB, textContent |-> JStr(<<"a", Surrogate>>)]),
   NoteContent([title |-> JStr(<<Surrogate>>)])}

EncodeInputs ==
  {Faulty(Input(fl, {}, FALSE, FALSE, NoFiles, FALSE, NoFiles), {"open"}) :
     fl \in SeqsUpTo({JsonFile(c) : c \in EncodeContents}, MaxParseFiles)}

\* the sink of the messages: a callback or none, verbose or not, for a
\* missing input directory, a skipped file, and a note with one attachment
\* that is there and one that is not
SinkInputs ==
  {[inp EXCEPT !.verbose = v, !.log_callback = cb, !.fs_faults = AllFaults] :
     inp \in {MissingInput,
              Input(<<JsonFile([form |-> "bad_json"]),
                      JsonFile(NoteContent(
                        [title |-> TitleB,
                         attachments |-> JList(<<Att(PathM), Att(PathA)>>)]))>>,
                    {PathA}, FALSE, FALSE, NoFiles, FALSE, NoFiles)},
     v \in BOOLEAN, cb \in BOOLEAN}

\* no input directory, beside an output directory that is absent or holds
\* files already, under the four option settings
MissingInputs ==
  {[Input(<<>>, {}, it, ia, o, FALSE, NoFiles) EXCEPT !.input_exists = FALSE] :
     o \in NameOutputs, it \in BOOLEAN, ia \in BOOLEAN}

Inputs ==
  OrderInputs \cup NameInputs \cup FilterInputs \cup ParseInputs
    \cup AttInputs \cup SuffixInputs \cup {MissingInput} \cup MissingInputs
    \cup ColorInputs \cup AttFaultInputs \cup WriteFaultInputs
    \cup DecodeInputs \cup EncodeInputs \cup SinkInputs

Init ==
  /\ \E inp \in Inputs :
       /\ input_exists = inp.input_exists
       /\ files = inp.files
       /\ src_files = inp.src_files
       /\ include_trashed = inp.include_trashed
       /\ include_archived = inp.include_archived
       /\ verbose = inp.verbose
       /\ log_callback = inp.log_callback
       /\ fs_faults = inp.fs_faults
       /\ out_exists = inp.out_exists
       /\ out_files = inp.out_files
       /\ res_exists = inp.res_exists
       /\ res_files = inp.res_files
  /\ dry_run = TRUE
  /\ pc = "call"
  /\ exc = ""
  /\ stats = ZeroStats
  /\ idx = 0
  /\ notes_to_export = <<>>
  /\ pos = 0
  /\ resources_ready = FALSE
  /\ used_attachment_names = {}
  /\ log = <<>>
  /\ journal = <<>>
  /\ dry_ret = NoRun
  /\ GuiIdle

Spec == Init /\ [][Next]_vars

\* ------------------------------------------------------------------ gui

\* the most conversions the user starts in one session of the window
MaxRuns == 2

KeepDir == Chars("keep")
OutDir == Chars("out")

\* os.path.isdir of the text of the input line: keep is the one directory
IsDir(path) == path = KeepDir /\ input_exists

\* the state of the call of convert_keep_notes the worker makes
call == <<dry_run, pc, exc, locals, dry_ret>>

\* the user types in a line, picks a directory, or ticks the dry run box:
\* _start_conversion disables the button alone, so the fields change also
\* while a conversion runs.  The worker has its arguments from the moment it
\* was made.
EditFields ==
  /\ window = "open"
  /\ \E i \in {<<" ">>, KeepDir}, o \in {<<>>, OutDir}, d \in BOOLEAN :
       /\ <<i, o, d>> # <<input_edit, output_edit, dry_run_checkbox>>
       /\ input_edit' = i
       /\ output_edit' = o
       /\ dry_run_checkbox' = d
  /\ UNCHANGED <<inputs, fs, call, start_button, status_label, log_area,
                 warning, thread, worker, run_pc, emitted, delivered, runs,
                 pass, loop, window>>

\* the user closes the window: app.exec() returns and sys.exit ends the
\* process.  No slot runs after it, and a conversion in flight stops where
\* it is.
CloseWindow ==
  /\ window = "open"
  /\ window' = "closed"
  /\ UNCHANGED <<inputs, fs, call, input_edit, output_edit, dry_run_checkbox,
                 start_button, status_label, log_area, warning, thread, worker,
                 run_pc, emitted, delivered, runs, pass, loop>>

\* the input directory is removed while no conversion is past its first test
RemoveInputDir ==
  /\ input_exists
  /\ run_pc \in {"none", "queued"} \/ (pc = "call" /\ pass.at = "top")
  /\ input_exists' = FALSE
  /\ UNCHANGED <<files, src_files, include_trashed, include_archived,
                 verbose, log_callback, fs_faults, fs, call, gui>>

\* the three tests of _start_conversion: the title of the warning, or ok
Validation ==
  IF Strip(input_edit) = <<>> THEN "Input required"
  ELSE IF ~IsDir(Strip(input_edit)) THEN "Input missing"
  ELSE IF Strip(output_edit) = <<>> THEN "Output required"
  ELSE "ok"

\* _start_conversion without start_button.setEnabled(False)
start_conversion_button_left ==
  /\ window = "open"
  /\ start_button
  /\ Validation = "ok" => runs.started < MaxRuns
  /\ IF Validation # "ok"
     THEN /\ warning' = Validation
          /\ UNCHANGED <<call, start_button, status_label, log_area, thread,
                         worker, run_pc, emitted, delivered, runs, pass, loop>>
     ELSE /\ start_button' = start_button
          /\ status_label' = "Running"
          /\ log_area' = <<>>
          /\ thread' = "started"
          /\ worker' = "created"
          /\ run_pc' = "queued"
          /\ runs' = [runs EXCEPT !.started = @ + 1]
          /\ delivered' = 0
          /\ dry_run' = dry_run_checkbox
          /\ pc' = "call"
          /\ exc' = ""
          /\ stats' = ZeroStats
          /\ idx' = 0
          /\ notes_to_export' = <<>>
          /\ pos' = 0
          /\ resources_ready' = FALSE
          /\ used_attachment_names' = {}
          /\ log' = <<>>
          /\ journal' = <<>>
          /\ pass' = NoPass
          /\ loop' = NoLoop
          /\ UNCHANGED <<dry_ret, warning, emitted>>
  /\ UNCHANGED <<inputs, fs, input_edit, output_edit, dry_run_checkbox,
                 window>>

\* _start_conversion, the slot of start_button.clicked: a disabled button
\* emits no click.  A rejected start shows a warning and returns; an accepted
\* one disables the button, makes the thread and the worker with the
\* arguments of the call, and starts the thread.
start_conversion ==
  /\ window = "open"
  /\ start_button
  /\ Validation = "ok" => runs.started < MaxRuns
  /\ IF Validation # "ok"
     THEN /\ warning' = Validation
          /\ UNCHANGED <<call, start_button, status_label, log_area, thread,
                         worker, run_pc, emitted, delivered, runs, pass, loop>>
     ELSE /\ start_button' = FALSE
          /\ status_label' = "Running"
          /\ log_area' = <<>>
          /\ thread' = "started"
          /\ worker' = "created"
          /\ run_pc' = "queued"
          /\ runs' = [runs EXCEPT !.started = @ + 1]
          /\ delivered' = 0
          /\ dry_run' = dry_run_checkbox
          /\ pc' = "call"
          /\ exc' = ""
          /\ stats' = ZeroStats
          /\ idx' = 0
          /\ notes_to_export' = <<>>
          /\ pos' = 0
          /\ resources_ready' = FALSE
          /\ used_attachment_names' = {}
          /\ log' = <<>>
          /\ journal' = <<>>
          /\ pass' = NoPass
          /\ loop' = NoLoop
          /\ UNCHANGED <<dry_ret, warning, emitted>>
  /\ UNCHANGED <<inputs, fs, input_edit, output_edit, dry_run_checkbox,
                 window>>

\* thread.started reaches ConversionWorker.run in the worker thread
run_started ==
  /\ window = "open"
  /\ run_pc = "queued"
  /\ run_pc' = "running"
  /\ UNCHANGED <<inputs, fs, call, input_edit, output_edit, dry_run_checkbox,
                 start_button, status_label, log_area, warning, thread, worker,
                 emitted, delivered, runs, pass, loop, window>>

\* what a step of the worker's call leaves alone in the window
worker_leaves ==
  <<input_edit, output_edit, dry_run_checkbox, start_button, status_label,
    log_area, warning, thread, worker, run_pc, emitted, delivered, runs,
    window>>

\* The steps of the call in the worker thread.  The main thread runs
\* between any two of them: log_callback is log.emit, which queues a signal
\* for the main thread, and the worker thread releases the interpreter lock
\* in every system call; closing the window ends the process wherever the
\* worker is.  So a step of the call ends with each call that changes the
\* file system and with each message, and what the code does after it (an
\* increment of a counter, attachment_refs.append, continue) is in the next
\* step.

\* lines 374-378: the test of the input directory and os.makedirs of the
\* output directory
begin_makedirs ==
  /\ pc = "call"
  /\ pass.at = "top"
  /\ IF ~input_exists
     THEN /\ pc' = "raised"
          /\ exc' = "FileNotFoundError"
          /\ UNCHANGED <<out_exists, pass>>
     ELSE /\ out_exists' = MakeOutputDir(dry_run, out_exists)
          /\ pass' = [NoPass EXCEPT !.at = "made"]
          /\ UNCHANGED <<pc, exc>>
  /\ UNCHANGED <<inputs, out_files, res_exists, res_files, dry_run, locals,
                 dry_ret, loop, worker_leaves>>

\* lines 380-391: stats, the message Scanning, and the empty queue
begin_scan ==
  /\ pc = "call"
  /\ pass.at = "made"
  /\ stats' = ZeroStats
  /\ log' = Log(<<>>, "Scanning")
  /\ notes_to_export' = <<>>
  /\ idx' = 1
  /\ pc' = "scan"
  /\ pass' = NoPass
  /\ UNCHANGED <<inputs, fs, dry_run, exc, pos, resources_ready,
                 used_attachment_names, journal, dry_ret, loop, worker_leaves>>

\* lines 395-400: a file that is no .json is passed; for a .json file,
\* stats["processed"] += 1 and the message Processing
scan_name ==
  /\ pc = "scan"
  /\ pass.at = "top"
  /\ idx <= Len(files)
  /\ IF ~IsJsonName(files[idx].name)
     THEN /\ idx' = idx + 1
          /\ UNCHANGED <<stats, log, pass>>
     ELSE /\ stats' = [stats EXCEPT !.processed = @ + 1]
          /\ log' = Log(log, "Processing")
          /\ pass' = [pass EXCEPT !.at = "parse"]
          /\ idx' = idx
  /\ UNCHANGED <<inputs, fs, dry_run, pc, exc, notes_to_export, pos,
                 resources_ready, used_attachment_names, journal, dry_ret,
                 loop, worker_leaves>>

\* lines 402-418: parse_note_json and the tests of the note
scan_parse ==
  /\ pc = "scan"
  /\ pass.at = "parse"
  /\ ScanOutcome(stats, log)
  /\ pass' = NoPass
  /\ UNCHANGED <<inputs, fs, dry_run, pos, resources_ready,
                 used_attachment_names, journal, dry_ret, loop, worker_leaves>>

\* the attachment the loop of line 435 is at: the first when the note is
\* begun
AttIndex == IF pass.at = "top" THEN 1 ELSE pass.k

\* the call is at the head of the attachment loop with an attachment to do
AtAttachment ==
  /\ pc = "export"
  /\ pos <= Len(notes_to_export)
  /\ pass.at \in {"top", "att"}
  /\ Truthy(notes_to_export[pos].note.attachments)
  /\ AttIndex <= Len(notes_to_export[pos].note.attachments.e)

\* lines 436-448: the attachment names a file that is there, and the run is
\* no dry run, so that the attachment goes on to shutil.copy2
ReachesCopy(att) ==
  /\ ~dry_run
  /\ Truthy(Get(att.f, "filePath", JNull))
  /\ Get(att.f, "filePath", JNull).s \in src_files

\* whether shutil.copy2 of attachment k may raise OSError
CopyMayFail(k) ==
  IF k \in CopyPositions(notes_to_export[pos].note, dry_run)
  THEN BOOLEAN ELSE {FALSE}

\* lines 435-452: an attachment that reaches no copy: one without filePath
\* is passed, one whose file is not there gets the message Attachment
\* missing, and in a dry run the attachment is named and gets the message
\* Would copy, with attachment_refs.append still to come
att_message ==
  /\ AtAttachment
  /\ ~ReachesCopy(notes_to_export[pos].note.attachments.e[AttIndex])
  /\ \E st \in {AttStep(notes_to_export[pos].note.attachments.e[AttIndex],
                        FALSE, "nothing", dry_run,
                        LoopState(loop.refs, loop.att_names, loop.missing,
                                  loop.copy_failed))} :
       /\ used_attachment_names' = st.used_names
       /\ log' = st.log
       /\ pass' = IF st.refs # loop.refs
                  THEN [at |-> "att_ref", k |-> AttIndex]
                  ELSE [at |-> "att", k |-> AttIndex + 1]
       /\ loop' = [loop EXCEPT
                     !.ref = IF st.refs # loop.refs
                             THEN st.refs[Len(st.refs)] ELSE <<>>,
                     !.att_names = st.att_names,
                     !.missing = st.missing]
  /\ UNCHANGED <<inputs, fs, dry_run, pc, exc, stats, idx, notes_to_export,
                 pos, resources_ready, journal, dry_ret, worker_leaves>>

\* lines 444-456 of a real run: get_unique_attachment_name, and
\* os.makedirs(resources_dir, exist_ok=True) unless resources_ready
att_makedirs ==
  /\ AtAttachment
  /\ ReachesCopy(notes_to_export[pos].note.attachments.e[AttIndex])
  /\ \E alloc \in {get_unique_attachment_name(
                     Get(notes_to_export[pos].note.attachments.e[AttIndex].f,
                         "filePath", JNull).s,
                     DOMAIN res_files, used_attachment_names)} :
       /\ used_attachment_names' = alloc.used_names
       /\ loop' = [loop EXCEPT !.att_names = Append(@, alloc.name)]
  /\ res_exists' = TRUE
  /\ resources_ready' = TRUE
  /\ pass' = [at |-> "att_dir", k |-> AttIndex]
  /\ UNCHANGED <<inputs, out_exists, out_files, res_files, dry_run, pc, exc,
                 stats, idx, notes_to_export, pos, log, journal, dry_ret,
                 worker_leaves>>

\* lines 459-462, shutil.copy2 in its three parts.  It opens the source and
\* makes the destination (att_dir); it copies the data (att_open); it copies
\* the times and the mode (att_data), and the message Copied follows.  Each
\* part may raise OSError, and then the message Attachment copy failed
\* follows, with stats["errors"] += 1 still to come.
att_copy ==
  /\ pc = "export"
  /\ pass.at \in {"att_dir", "att_open", "att_data"}
  /\ \E fails \in CopyMayFail(pass.k) :
       LET att  == notes_to_export[pos].note.attachments.e[pass.k]
           name == loop.att_names[Len(loop.att_names)]
           from == Get(att.f, "filePath", JNull).s
       IN  IF fails
           THEN /\ log' = Log(log, "AttachmentCopyFailed")
                /\ loop' = [loop EXCEPT !.copy_failed = @ + 1]
                /\ pass' = [pass EXCEPT !.at = "att_failed"]
                /\ UNCHANGED res_files
           ELSE IF pass.at = "att_dir"
           THEN /\ res_files' = Put(res_files, name,
                                    [from |-> from, whole |-> FALSE])
                /\ pass' = [pass EXCEPT !.at = "att_open"]
                /\ UNCHANGED <<log, loop>>
           ELSE IF pass.at = "att_open"
           THEN /\ res_files' = Put(res_files, name,
                                    [from |-> from, whole |-> TRUE])
                /\ pass' = [pass EXCEPT !.at = "att_data"]
                /\ UNCHANGED <<log, loop>>
           ELSE /\ log' = Log(log, "CopiedAttachment")
                /\ loop' = [loop EXCEPT !.ref = AttRef(att, name)]
                /\ pass' = [pass EXCEPT !.at = "att_ref"]
                /\ UNCHANGED res_files
  /\ UNCHANGED <<inputs, out_exists, out_files, res_exists, dry_run, pc, exc,
                 stats, idx, notes_to_export, pos, resources_ready,
                 used_attachment_names, journal, dry_ret, worker_leaves>>

\* lines 463-468: stats["errors"] += 1 and continue, or
\* attachment_refs.append, and the next attachment
att_settle ==
  /\ pc = "export"
  /\ pass.at \in {"att_failed", "att_ref"}
  /\ stats' = IF pass.at = "att_failed"
              THEN [stats EXCEPT !.errors = @ + 1] ELSE stats
  /\ pass' = [at |-> "att", k |-> pass.k + 1]
  /\ loop' = [loop EXCEPT !.ref = <<>>,
                          !.refs = IF pass.at = "att_ref"
                                   THEN Append(@, loop.ref) ELSE @]
  /\ UNCHANGED <<inputs, fs, dry_run, pc, exc, idx, notes_to_export, pos,
                 resources_ready, used_attachment_names, log, journal,
                 dry_ret, worker_leaves>>

\* the call is at line 470: the attachments of the note are done
AtNote ==
  /\ pc = "export"
  /\ pos <= Len(notes_to_export)
  /\ IF Truthy(notes_to_export[pos].note.attachments)
     THEN /\ pass.at = "att"
          /\ pass.k > Len(notes_to_export[pos].note.attachments.e)
     ELSE pass.at = "top"

\* lines 470-481 make the file of the note: a real run in which
\* note_to_markdown returns, the name is one UTF-8 encodes, and open does
\* not raise OSError
MakesFile(outcome) ==
  /\ ~dry_run
  /\ outcome # "open_fails"
  /\ note_to_markdown(notes_to_export[pos].note, loop.refs).kind = "text"
  /\ Utf8Encodable(get_safe_filename(PyStr(notes_to_export[pos].note.title),
                                     DOMAIN out_files,
                                     notes_to_export[pos].note.created_usec))

\* lines 470-485 where no file is made: note_to_markdown or open raises an
\* exception that leaves the call; the dry run gives the message Would
\* write; open raises OSError and the message Error writing follows
write_message ==
  /\ AtNote
  /\ \E outcome \in WriteOutcomes(dry_run) \ {"write_fails"} :
       /\ ~MakesFile(outcome)
       /\ ExportOutcome(LoopState(loop.refs, loop.att_names, loop.missing,
                                  loop.copy_failed),
                        outcome, FALSE)
  /\ pass' = IF pc' = "raised" THEN NoPass
             ELSE [NoPass EXCEPT
                     !.at = IF journal'[Len(journal')].exported
                            THEN "count" ELSE "write_failed"]
  /\ loop' = NoLoop
  /\ UNCHANGED <<inputs, out_exists, dry_run, idx, notes_to_export, dry_ret,
                 worker_leaves>>

\* lines 470-481 of a real run: note_to_markdown, get_safe_filename, and
\* open(output_path, "w"), which makes the file, empty
write_open ==
  /\ AtNote
  /\ MakesFile("ok")
  /\ \E safe_filename \in
        {get_safe_filename(PyStr(notes_to_export[pos].note.title),
                           DOMAIN out_files,
                           notes_to_export[pos].note.created_usec)} :
       /\ out_files' = Put(out_files, safe_filename,
                           [src |-> notes_to_export[pos].src, refs |-> <<>>,
                            md |-> <<>>])
       /\ loop' = [loop EXCEPT !.file = safe_filename]
  /\ pass' = [NoPass EXCEPT !.at = "opened"]
  /\ UNCHANGED <<inputs, out_exists, res_exists, res_files, dry_run, pc, exc,
                 locals, dry_ret, worker_leaves>>

\* line 482 and the end of the with block: f.write and the close put the
\* text in the file, here in one write; a text UTF-8 cannot encode raises
\* UnicodeEncodeError, which leaves the call, and a write that raises
\* OSError leaves a prefix of the text
write_text ==
  /\ pc = "export"
  /\ pass.at = "opened"
  /\ \E md_content \in {note_to_markdown(notes_to_export[pos].note,
                                         loop.refs)},
        outcome \in WriteOutcomes(dry_run) \ {"open_fails"} :
     \E kept \in IF outcome = "write_fails"
                 THEN KeptLengths(md_content.text) ELSE {0} :
       IF ~Utf8Encodable(md_content.text)
       THEN /\ pc' = "raised"
            /\ exc' = "UnicodeEncodeError"
            /\ pass' = NoPass
            /\ loop' = NoLoop
            /\ UNCHANGED out_files
       ELSE /\ out_files' =
                 Put(out_files, loop.file,
                     IF outcome = "ok"
                     THEN [src |-> notes_to_export[pos].src,
                           refs |-> loop.refs, md |-> md_content.text]
                     ELSE [src |-> notes_to_export[pos].src, refs |-> <<>>,
                           md |-> SubSeq(md_content.text, 1, kept)])
            /\ pass' = [pass EXCEPT !.at = IF outcome = "ok" THEN "written"
                                           ELSE "write_raised"]
            /\ UNCHANGED <<pc, exc, loop>>
  /\ UNCHANGED <<inputs, out_exists, res_exists, res_files, dry_run, stats,
                 idx, notes_to_export, pos, resources_ready,
                 used_attachment_names, log, journal, dry_ret, worker_leaves>>

\* lines 483 and 485: the message Wrote, or the message Error writing
write_log ==
  /\ pc = "export"
  /\ pass.at \in {"written", "write_raised"}
  /\ log' = Log(log, IF pass.at = "written" THEN "Wrote" ELSE "ErrorWriting")
  /\ journal' = Append(journal,
       NoteRecord(notes_to_export[pos],
                  LoopState(loop.refs, loop.att_names, loop.missing,
                            loop.copy_failed),
                  DOMAIN out_files \ {loop.file}, loop.file,
                  pass.at = "written", pass.at = "written",
                  pass.at = "write_raised"))
  /\ pass' = [pass EXCEPT !.at = IF pass.at = "written" THEN "count"
                                 ELSE "write_failed"]
  /\ loop' = NoLoop
  /\ UNCHANGED <<inputs, fs, dry_run, pc, exc, stats, idx, notes_to_export,
                 pos, resources_ready, used_attachment_names, dry_ret,
                 worker_leaves>>

\* lines 486-489: stats["errors"] += 1 and continue, or
\* stats["exported"] += 1, and the next note
write_settle ==
  /\ pc = "export"
  /\ pass.at \in {"count", "write_failed"}
  /\ stats' = IF pass.at = "count"
              THEN [stats EXCEPT !.exported = @ + 1]
              ELSE [stats EXCEPT !.errors = @ + 1]
  /\ pos' = pos + 1
  /\ pass' = NoPass
  /\ UNCHANGED <<inputs, fs, dry_run, pc, exc, idx, notes_to_export,
                 resources_ready, used_attachment_names, log, journal,
                 dry_ret, loop, worker_leaves>>

\* ConversionWorker.run: a step of convert_keep_notes in the worker thread
run_convert ==
  /\ window = "open"
  /\ run_pc = "running"
  /\ \/ begin_makedirs
     \/ begin_scan
     \/ scan_name
     \/ scan_parse
     \/ SortNotes
     \/ att_message
     \/ att_makedirs
     \/ att_copy
     \/ att_settle
     \/ write_message
     \/ write_open
     \/ write_text
     \/ write_log
     \/ write_settle
     \/ Return

\* ConversionWorker.run: finished.emit(stats), or error.emit(str(exc)) in
\* the handler of except Exception
run_emit ==
  /\ window = "open"
  /\ run_pc = "running"
  /\ pc \in {"done", "raised"}
  /\ emitted' = IF pc = "done" THEN "finished" ELSE "error"
  /\ run_pc' = "returned"
  /\ UNCHANGED <<inputs, fs, call, input_edit, output_edit, dry_run_checkbox,
                 start_button, status_label, log_area, warning, thread, worker,
                 delivered, runs, pass, loop, window>>

\* _append_log, the slot of worker.log: the main thread delivers the queued
\* signals in the order they were emitted
append_log ==
  /\ window = "open"
  /\ delivered < Len(log)
  /\ log_area' = Append(log_area, log[delivered + 1])
  /\ delivered' = delivered + 1
  /\ UNCHANGED <<inputs, fs, call, input_edit, output_edit, dry_run_checkbox,
                 start_button, status_label, warning, thread, worker, run_pc,
                 emitted, runs, pass, loop, window>>

\* _finalize_run: the status, the button, thread.quit() and thread.wait(),
\* and thread and worker set to None
finalize_run(status) ==
  /\ status_label' = status
  /\ start_button' = TRUE
  /\ thread' = "None"
  /\ worker' = "None"
  /\ run_pc' = IF thread = "started" THEN "none" ELSE run_pc
  /\ emitted' = "none"
  /\ UNCHANGED <<inputs, fs, call, input_edit, output_edit, dry_run_checkbox,
                 warning, delivered, pass, loop, window>>

\* _on_finished, the slot of worker.finished
on_finished ==
  /\ window = "open"
  /\ emitted = "finished"
  /\ delivered = Len(log)
  /\ log_area' = log_area \o <<"ConversionComplete", "Summary">>
  /\ runs' = [runs EXCEPT !.finished = @ + 1]
  /\ finalize_run("Done")

\* _on_error, the slot of worker.error
on_error ==
  /\ window = "open"
  /\ emitted = "error"
  /\ delivered = Len(log)
  /\ log_area' = Append(log_area, "Error")
  /\ runs' = [runs EXCEPT !.failed = @ + 1]
  /\ finalize_run("Error")

\* the Keep directory of the session: a note with an attachment, on a file
\* system that may fail the copy; a note, on one that may fail open; or a
\* note whose timestamp is no number
GuiInputs ==
  {Faulty(Input(<<JsonFile(NoteContent([title |-> TitleB,
                                        attachments |-> JList(<<Att(PathA)>>)]))>>,
                {PathA}, FALSE, FALSE, NoFiles, FALSE, NoFiles),
          {"copy"}),
   Faulty(Input(<<JsonFile(NoteContent([title |-> TitleB]))>>,
                {}, FALSE, FALSE, NoFiles, FALSE, NoFiles),
          {"open"}),
   Input(<<JsonFile(NoteContent([title |-> TitleB,
                                 createdTimestampUsec |-> JStr(Chars("abc"))]))>>,
         {}, FALSE, FALSE, NoFiles, FALSE, NoFiles)}

InitGui ==
  /\ \E inp \in GuiInputs :
       /\ input_exists = inp.input_exists
       /\ files = inp.files
       /\ src_files = inp.src_files
       /\ include_trashed = inp.include_trashed
       /\ include_archived = inp.include_archived
       /\ verbose = inp.verbose
       /\ log_callback = inp.log_callback
       /\ fs_faults = inp.fs_faults
       /\ out_exists = inp.out_exists
       /\ out_files = inp.out_files
       /\ res_exists = inp.res_exists
       /\ res_files = inp.res_files
  /\ dry_run = FALSE
  /\ pc = "idle"
  /\ exc = ""
  /\ stats = ZeroStats
  /\ idx = 0
  /\ notes_to_export = <<>>
  /\ pos = 0
  /\ resources_ready = FALSE
  /\ used_attachment_names = {}
  /\ log = <<>>
  /\ journal = <<>>
  /\ dry_ret = NoRun
  /\ GuiIdle

NextGui ==
  \/ EditFields
  \/ CloseWindow
  \/ RemoveInputDir
  \/ start_conversion
  \/ run_started
  \/ run_convert
  \/ run_emit
  \/ append_log
  \/ on_finished
  \/ on_error

\* the place of the call of convert_keep_notes in its code
position == <<pc, idx, pos, pass>>

\* ConversionWorker.run goes on with the call: the place of the call
\* changes.  Every step of run_convert changes it, nothing else does while
\* the worker runs, and a call that has not returned can always take its next
\* step.
run_advances ==
  /\ window = "open"
  /\ run_pc = "running"
  /\ pc \in {"call", "scan", "export"}
  /\ pc' \in {"call", "scan", "export", "done", "raised"}
  /\ idx' \in {idx, idx + 1}
  /\ pos' \in {pos, pos + 1}
  /\ pass' \in [at : Places, k : {0, 1, 2, pass.k, pass.k + 1}]

\* While the window is open the worker thread runs whenever it can, and the
\* event loop of the main thread delivers every queued signal; the user and
\* the file system owe nothing.
SpecGui ==
  /\ InitGui
  /\ [][NextGui]_vars
  /\ WF_vars(run_started)
  /\ WF_position(run_advances)
  /\ WF_vars(run_emit)
  /\ WF_vars(append_log)
  /\ WF_vars(on_finished)
  /\ WF_vars(on_error)

\* ------------------------------------------------------------------ claims

\* the files the discovery loop has finished with
Scanned == 1..(idx - 1)

JsonFiles == {i \in DOMAIN files : IsJsonName(files[i].name)}

\* the files that hold a JSON object
ObjectFiles ==
  {i \in JsonFiles : /\ files[i].content.form = "json"
                     /\ files[i].content.data.t = "dict"}

\* the files that hold undecodable bytes, undecodable JSON, or JSON that is
\* not an object: among them the lists nested too deep and the integer too
\* long to convert.  A link to nothing holds nothing.
InvalidFiles ==
  {i \in JsonFiles \ ObjectFiles : files[i].content.form # "dangling_link"}

\* the fields of the JSON object in file i
Fields(i) == files[i].content.data.f

QueuedSrcs == {notes_to_export[k].src : k \in DOMAIN notes_to_export}

HandledSrcs == {journal[k].src : k \in DOMAIN journal}

RECURSIVE SumField(_, _)
SumField(s, field) ==
  IF s = <<>> THEN 0 ELSE Head(s)[field] + SumField(Tail(s), field)

WriteFailures(j) == Len(SelectSeq(j, LAMBDA e : ~e.exported))
CopyFailures(j) == SumField(j, "copy_failed")
MissingAttachments(j) == SumField(j, "missing")

\* C1: every queued note that is pinned is handled by the export loop before
\* every queued note that is not.
C1_PinnedBeforeUnpinned ==
  \A i, j \in DOMAIN journal :
    (journal[i].pinned /\ ~journal[j].pinned) => i < j

\* C2: among notes of the same pinned status the export order is
\* non-decreasing in updated_usec, and notes of equal pinned status and equal
\* updated_usec keep their discovery order.
C2_AscendingAndStable ==
  \A i, j \in DOMAIN journal :
    (i < j /\ journal[i].pinned = journal[j].pinned)
      => /\ journal[i].updated <= journal[j].updated
         /\ (journal[i].updated = journal[j].updated
               => journal[i].src < journal[j].src)

\* a tie kept in discovery order beside a pair the sort has swapped
C2_Witness ==
  /\ pc = "done"
  /\ \E i, j \in DOMAIN journal :
       /\ i < j
       /\ journal[i].pinned = journal[j].pinned
       /\ journal[i].updated = journal[j].updated
  /\ \E i, j \in DOMAIN journal :
       /\ i < j
       /\ journal[i].pinned = journal[j].pinned
       /\ journal[i].src > journal[j].src

\* the names of a real run so far: exported notes have distinct names, each
\* still holding its own note, and a later note of the same sanitised title
\* has a greater disambiguator
C3_Names ==
  ~dry_run =>
    \A i, j \in DOMAIN journal :
      (journal[i].exported /\ journal[j].exported /\ i < j)
        => /\ journal[i].filename # journal[j].filename
           /\ journal[i].filename \in DOMAIN out_files
           /\ out_files[journal[i].filename].src = journal[i].src
           /\ (journal[i].base_name = journal[j].base_name
                 => journal[i].counter < journal[j].counter)

\* a step of a real run: no file of the output directory is replaced or
\* removed, and the name a note is given is <base>.md or <base> (n).md with
\* the least n >= 2 such that the name is free, free when it is given
C3_Step ==
  ~dry_run =>
    /\ \A n \in DOMAIN out_files :
         n \in DOMAIN out_files' /\ out_files'[n] = out_files[n]
    /\ Len(journal') > Len(journal) =>
         LET e == journal'[Len(journal')]
         IN  /\ e.filename = NoteFileName(e.base_name, e.counter)
             /\ e.filename \notin DOMAIN out_files
             /\ \A c \in 1..(e.counter - 1) :
                  NoteFileName(e.base_name, c) \in DOMAIN out_files

\* C3: in a real run, exported notes whose sanitised titles collide get
\* pairwise distinct names B.md, B (2).md, ... with a strictly increasing
\* disambiguator, no name given is that of an existing file, and no file
\* written earlier or present before the run is overwritten.
C3_DistinctNamesNoOverwrite == [](C3_Names) /\ [][C3_Step]_vars

\* three notes of one sanitised title exported beside a file from before
C3_Witness ==
  /\ ~dry_run
  /\ pc = "done"
  /\ \E n \in DOMAIN out_files : out_files[n].src = 0
  /\ \E i, j, k \in DOMAIN journal :
       /\ i < j /\ j < k
       /\ journal[i].exported /\ journal[j].exported /\ journal[k].exported
       /\ journal[i].base_name = journal[j].base_name
       /\ journal[j].base_name = journal[k].base_name
       /\ journal[k].counter > 3

\* C4: the dry run gives the notes and the attachments the same names as the
\* real run on the same input and output directory.
C4_DryRunNamesAsRealRun ==
  (pc = "done" /\ ~dry_run /\ dry_ret.pc = "done")
    => /\ Len(journal) = Len(dry_ret.journal)
       /\ \A i \in DOMAIN journal :
            /\ i \in DOMAIN dry_ret.journal
            /\ journal[i].filename = dry_ret.journal[i].filename
            /\ journal[i].att_names = dry_ret.journal[i].att_names

\* C5: the real run returns the six counters of Stats that the dry run on
\* the same input returned, also when attachment copies or note writes fail
\* in the real run.
C5_SameStatsAlways ==
  (pc = "done" /\ ~dry_run /\ dry_ret.pc = "done") => stats = dry_ret.stats

\* C6: a dry run changes nothing in the file system: no output directory, no
\* resources directory, no Markdown file, no copied attachment.
C6_DryRunLeavesFilesystem == [][dry_run => fs' = fs]_vars

\* a dry run that returned, having named a note and an attachment, with no
\* output directory
C6_Witness ==
  /\ dry_run
  /\ pc = "done"
  /\ ~out_exists
  /\ \E i \in DOMAIN journal : journal[i].exported /\ journal[i].att_names # <<>>

TrashedNotes ==
  {i \in ObjectFiles :
     Truthy(Get(Fields(i), "isTrashed", JBool(FALSE)))}

ArchivedNotes ==
  {i \in ObjectFiles :
     Truthy(Get(Fields(i), "isArchived", JBool(FALSE)))}

\* C7 as stated: a trashed note is queued for export exactly when
\* include_trashed is set, whatever its other flags, and skipped_trashed
\* counts the trashed notes when it is not set and stays 0 when it is.
C7_TrashedFollowsItsFlagOnly ==
  pc \in {"export", "done"} =>
    /\ \A i \in TrashedNotes : i \in QueuedSrcs <=> include_trashed
    /\ stats.skipped_trashed =
         IF include_trashed THEN 0 ELSE Cardinality(TrashedNotes)

\* C7, amended: a trashed note is queued exactly when include_trashed is set
\* and the note is not archived or include_archived is set too; every queued
\* note reaches the export loop; skipped_trashed is as stated.
C7_TrashedFollowsBothFlags ==
  pc \in {"export", "done"} =>
    /\ \A i \in TrashedNotes :
         i \in QueuedSrcs
           <=> (include_trashed /\ (i \notin ArchivedNotes \/ include_archived))
    /\ stats.skipped_trashed =
         IF include_trashed THEN 0 ELSE Cardinality(TrashedNotes)
    /\ (pc = "done" => HandledSrcs = QueuedSrcs)

\* include_trashed without include_archived: one trashed note exported, one
\* trashed and archived note skipped as archived
C7_Witness ==
  /\ pc = "done"
  /\ ~dry_run
  /\ include_trashed
  /\ ~include_archived
  /\ \E i \in TrashedNotes \ ArchivedNotes : i \in HandledSrcs
  /\ \E i \in TrashedNotes \cap ArchivedNotes : i \notin QueuedSrcs

\* the conversion was left by an exception at a file of the discovery loop
RaisedAtFile == pc = "raised" /\ pos = 0 /\ idx \in DOMAIN files

\* C8: a .json file that is undecodable or holds no JSON object adds one to
\* skipped_invalid, is never queued or exported, and never stops the batch:
\* the conversion raises at no such file, and a conversion that returns has
\* processed every .json file.
C8_InvalidFilesAreSkipped ==
  /\ stats.skipped_invalid = Cardinality(InvalidFiles \cap Scanned)
  /\ QueuedSrcs \cap InvalidFiles = {}
  /\ HandledSrcs \cap InvalidFiles = {}
  /\ RaisedAtFile => idx \notin InvalidFiles
  /\ pc = "done" => stats.processed = Cardinality(JsonFiles)

\* a real run that returned after an invalid file and exported a later note
C8_Witness ==
  /\ pc = "done"
  /\ ~dry_run
  /\ stats.skipped_invalid >= 1
  /\ \E i \in InvalidFiles, k \in DOMAIN journal :
       i < journal[k].src /\ journal[k].written

\* absent, null, or of a type or text that is no number
NonNumeric(f, key) ==
  \/ key \notin DOMAIN f
  \/ f[key].t \in {"null", "list", "dict"}
  \/ /\ f[key].t = "str"
     /\ \E k \in DOMAIN f[key].s : f[key].s[k] \notin Range(DigitChars)

\* C9: a timestamp field that is absent, null or non-numeric yields 0, and
\* parsing such a record raises nothing out of the conversion.
C9_NonNumericTimestampIsZero ==
  /\ (RaisedAtFile /\ idx \in ObjectFiles)
       => ~(\/ NonNumeric(Fields(idx), "createdTimestampUsec")
            \/ NonNumeric(Fields(idx), "userEditedTimestampUsec"))
  /\ \A k \in DOMAIN notes_to_export :
       LET f    == Fields(notes_to_export[k].src)
           note == notes_to_export[k].note
       IN  /\ NonNumeric(f, "createdTimestampUsec") => note.created_usec = 0
           /\ NonNumeric(f, "userEditedTimestampUsec") => note.updated_usec = 0

\* C10: every attachment dropped, for a missing source file or for a failed
\* copy, is counted in errors when the conversion returns.
C10_DroppedAttachmentsAreErrors ==
  pc = "done" =>
    stats.errors >= MissingAttachments(journal) + CopyFailures(journal)

\* C11: a run creates output_dir/resources only if it copies an attachment
\* into it: a real run called without a resources/ directory that has
\* returned and left one has left in it a file it copied whole.
C11_ResourcesOnlyWithACopy ==
  (pc = "done" /\ ~dry_run /\ ~dry_ret.res_existed /\ res_exists)
    => \E n \in DOMAIN res_files : res_files[n].whole

\* the destination names the run has allocated so far, in order
RECURSIVE AllAttNames(_)
AllAttNames(j) ==
  IF j = <<>> THEN <<>> ELSE Head(j).att_names \o AllAttNames(Tail(j))

\* the names allocated in a run are pairwise distinct, and the used-name set
\* holds exactly the names allocated since the run began
C12_Names ==
  pc \in {"export", "done"} =>
    /\ \A a, b \in DOMAIN AllAttNames(journal) :
         a # b => AllAttNames(journal)[a] # AllAttNames(journal)[b]
    /\ used_attachment_names = Range(AllAttNames(journal))

\* a step of the export loop: no name it allocates is that of a file the
\* resources directory held when the step began
C12_Step ==
  Len(journal') > Len(journal) =>
    \A n \in Range(journal'[Len(journal')].att_names) : n \notin DOMAIN res_files

\* C12: in one run, dry or real, the attachment names allocated are pairwise
\* distinct and none is that of a file already in the resources directory;
\* the name is reserved when it is chosen, also when the copy then fails or
\* is skipped by the dry run, and the used-name set starts empty in each run.
C12_AttachmentNamesDistinct == [](C12_Names) /\ [][C12_Step]_vars

\* a real run beside a resource from before: three names allocated, one of
\* them for a copy that failed and left no file, one for a copy that was made
C12_Witness ==
  /\ pc = "done"
  /\ ~dry_run
  /\ \E n \in DOMAIN res_files : res_files[n] = OldResource
  /\ Len(AllAttNames(journal)) >= 3
  /\ \E n \in Range(AllAttNames(journal)) : n \notin DOMAIN res_files
  /\ \E n \in Range(AllAttNames(journal)) :
       n \in DOMAIN res_files /\ res_files[n].whole

\* without an input directory the call has not gone past its first test: no
\* message, no Stats, no note queued, and the only exception is
\* FileNotFoundError
C13_NothingDone ==
  ~input_exists =>
    /\ pc \in {"call", "raised"}
    /\ pc = "raised" => exc = "FileNotFoundError"
    /\ log = <<>>
    /\ stats = ZeroStats
    /\ journal = <<>>

\* without an input directory no step creates a directory or a file
C13_Step == ~input_exists => fs' = fs

\* C13: if input_dir is not a directory, convert_keep_notes raises
\* FileNotFoundError before any other effect: the output directory is not
\* created, no file is written or copied, no progress message is emitted
\* and no Stats are returned.
C13_MissingInputFailsFirst == [](C13_NothingDone) /\ [][C13_Step]_vars

\* a real run, not a dry one, has raised for a missing input directory and
\* there is still no output directory
C13_Witness ==
  /\ ~input_exists
  /\ ~dry_run
  /\ pc = "raised"
  /\ exc = "FileNotFoundError"
  /\ ~out_exists

\* text.split("\n")
RECURSIVE SplitLines(_)
SplitLines(text) ==
  LET hits == {i \in DOMAIN text : text[i] = "\n"}
  IN  IF hits = {} THEN <<text>>
      ELSE LET i == CHOOSE h \in hits : \A g \in hits : h <= g
           IN  <<SubSeq(text, 1, i - 1)>>
                 \o SplitLines(SubSeq(text, i + 1, Len(text)))

\* the lines of a Markdown file, without the newline that ends it
MdLines(md) == SplitLines(SubSeq(md, 1, Len(md) - 1))

\* the opening line of the styled container for a hex value
OpeningFor(hex) ==
  Chars("<div class=\"keep-note\" style=\"background-color: ") \o hex
    \o Chars("; color: black; padding: 16px; border-radius: 8px; margin-bottom: 16px;\">")

IsOpening(line) == StartsWith(line, Chars("<div"))
IsClosing(line) == line = Chars("</div>")

\* the metadata line: <small ...>Updated|Created: <timestamp></small>
IsMetadata(line) ==
  \/ StartsWith(line, Chars("<small style=\"color: #555;\">Updated: "))
  \/ StartsWith(line, Chars("<small style=\"color: #555;\">Created: "))

\* the Markdown files the run has written
WrittenNames ==
  {journal[i].filename : i \in {j \in DOMAIN journal : journal[j].written}}

\* the color of the note in file i, as the file gives it; DEFAULT if absent
GivenColor(i) == Get(Fields(i), "color", JStr(Chars("DEFAULT")))

\* the eleven names of COLOR_MAP other than DEFAULT
PaletteNames == DOMAIN COLOR_MAP \ {Chars("DEFAULT")}

\* the shape of a rendered note: wrapped in the container for hex, or bare
WrappedShape(md, hex) ==
  LET lines == MdLines(md)
      n     == Len(lines)
  IN  /\ n >= 4
      /\ lines[1] = OpeningFor(hex)
      /\ IsMetadata(lines[n - 1])
      /\ IsClosing(lines[n])
      /\ \A k \in 2..n : ~IsOpening(lines[k])
      /\ \A k \in 1..(n - 2) : ~IsMetadata(lines[k]) /\ ~IsClosing(lines[k])

BareShape(md) ==
  LET lines == MdLines(md)
      n     == Len(lines)
  IN  /\ n >= 1
      /\ IsMetadata(lines[n])
      /\ \A k \in 1..n : ~IsOpening(lines[k]) /\ ~IsClosing(lines[k])
      /\ \A k \in 1..(n - 1) : ~IsMetadata(lines[k])

EndsWithOneNewline(md) ==
  /\ Len(md) >= 2
  /\ md[Len(md)] = "\n"
  /\ md[Len(md) - 1] \notin Whitespace

\* C14 as stated: a written note is wrapped exactly when its color is one of
\* the eleven names as COLOR_MAP spells them; wrapped, its first line opens
\* the container with that name's hex value, the metadata line is the line
\* before the closing line, which is the last; bare, it has no container
\* line and ends with the metadata line; either way it ends with exactly one
\* newline.
C14_WrappedIffPaletteName ==
  \A f \in WrittenNames :
    LET md    == out_files[f].md
        color == GivenColor(out_files[f].src)
    IN  /\ EndsWithOneNewline(md)
        /\ IF color.t = "str" /\ color.s \in PaletteNames
           THEN WrappedShape(md, COLOR_MAP[color.s])
           ELSE BareShape(md)

\* C14, amended: the color is compared in upper case, so a written note is
\* wrapped exactly when its color, upper-cased, is one of the eleven names
\* (red and Pink wrap as RED and PINK do); the rest is as stated.
C14_WrappedIffPaletteNameAnyCase ==
  \A f \in WrittenNames :
    LET md    == out_files[f].md
        color == GivenColor(out_files[f].src)
    IN  /\ EndsWithOneNewline(md)
        /\ IF color.t = "str" /\ Upper(color.s) \in PaletteNames
           THEN WrappedShape(md, COLOR_MAP[Upper(color.s)])
           ELSE BareShape(md)

\* a written note with text, checklist, labels, attachment and links whose
\* color Pink has put it in the PINK container
C14_Witness ==
  /\ pc = "done"
  /\ ~dry_run
  /\ \E f \in WrittenNames :
       /\ GivenColor(out_files[f].src) = JStr(Chars("Pink"))
       /\ out_files[f].refs # <<>>
       /\ Len(MdLines(out_files[f].md)) >= 12
       /\ MdLines(out_files[f].md)[1] = OpeningFor(Chars("#f8bbd0"))

\* the notes of the policy skips, from the files and the options
SkippedAsTrashed == IF include_trashed THEN {} ELSE TrashedNotes

SkippedAsArchived ==
  IF include_archived THEN {} ELSE ArchivedNotes \ SkippedAsTrashed

\* the notes the export loop wrote (in a dry run: would write), and those
\* whose write failed
ExportedSrcs ==
  {journal[k].src : k \in {d \in DOMAIN journal : dry_run \/ journal[d].written}}

FailedWriteSrcs ==
  {journal[k].src : k \in {d \in DOMAIN journal : ~dry_run /\ ~journal[d].written}}

\* C15: when convert_keep_notes returns, every discovered .json file is in
\* exactly one of: exported, skipped as trashed, skipped as archived, skipped
\* as invalid, write failed; the counters are the sizes of the first four
\* and processed is the sum of the five; errors is the failed writes plus
\* the failed copies, so a missing or uncopied attachment never lowers
\* exported.
C15_StatsAccounting ==
  pc = "done" =>
    /\ Len(journal) = Cardinality(HandledSrcs)
    /\ ExportedSrcs \cup FailedWriteSrcs \cup SkippedAsTrashed
         \cup SkippedAsArchived \cup InvalidFiles = JsonFiles
    /\ Cardinality(ExportedSrcs) + Cardinality(FailedWriteSrcs)
         + Cardinality(SkippedAsTrashed) + Cardinality(SkippedAsArchived)
         + Cardinality(InvalidFiles) = Cardinality(JsonFiles)
    /\ stats.exported = Cardinality(ExportedSrcs)
    /\ stats.skipped_trashed = Cardinality(SkippedAsTrashed)
    /\ stats.skipped_archived = Cardinality(SkippedAsArchived)
    /\ stats.skipped_invalid = Cardinality(InvalidFiles)
    /\ stats.processed = stats.exported + stats.skipped_trashed
                           + stats.skipped_archived + stats.skipped_invalid
                           + Cardinality(FailedWriteSrcs)
    /\ stats.errors = Cardinality(FailedWriteSrcs) + CopyFailures(journal)

\* a real run that returned with a note exported although its attachments
\* were missing or failed to copy, and with another note's write failed
C15_Witness ==
  /\ pc = "done"
  /\ ~dry_run
  /\ FailedWriteSrcs # {}
  /\ \E k \in DOMAIN journal :
       /\ journal[k].written
       /\ journal[k].missing + journal[k].copy_failed >= 2
  /\ stats.errors >= 2
  /\ stats.exported >= 1

\* a conversion is in flight: a thread is started and not yet finalized
InFlight == thread = "started"

\* while a conversion is in flight the button is disabled and the status is
\* Running; thread, worker and the run of the worker exist together; the
\* call of convert_keep_notes advances only in flight; and the conversions
\* started are those ended as Done, those ended as Error, and the one in
\* flight if there is one
C16_OneInFlight ==
  /\ InFlight => ~start_button /\ status_label = "Running"
  /\ InFlight <=> worker = "created"
  /\ InFlight <=> run_pc # "none"
  /\ ~InFlight => start_button /\ emitted = "none"
  /\ runs.started = runs.finished + runs.failed + (IF InFlight THEN 1 ELSE 0)
  /\ emitted = "finished" => pc = "done" /\ run_pc = "returned"
  /\ emitted = "error" => pc = "raised" /\ run_pc = "returned"

\* a step that starts a conversion passes the three tests with the button
\* enabled and no conversion in flight, and disables the button; a step that
\* ends one is _on_finished with status Done or _on_error with status Error,
\* enables the button and clears thread and worker; a start that is rejected
\* changes nothing but the warning shown
C16_Step ==
  /\ runs'.started # runs.started
       => /\ runs'.started = runs.started + 1
          /\ Validation = "ok" /\ start_button /\ ~InFlight
          /\ ~start_button' /\ InFlight'
  /\ (InFlight /\ ~InFlight')
       => /\ start_button' /\ worker' = "None"
          /\ \/ /\ emitted = "finished" /\ status_label' = "Done"
                /\ runs' = [runs EXCEPT !.finished = @ + 1]
             \/ /\ emitted = "error" /\ status_label' = "Error"
                /\ runs' = [runs EXCEPT !.failed = @ + 1]
  /\ (runs'.finished # runs.finished \/ runs'.failed # runs.failed)
       => InFlight /\ ~InFlight'
  /\ warning' # warning
       => /\ Validation # "ok" /\ warning' = Validation
          /\ start_button' /\ ~InFlight' /\ runs' = runs /\ call' = call

\* C16 as stated: in the window at most one conversion is in flight: from
\* the start of the worker thread until _finalize_run the start button is
\* disabled, so no second worker starts; every conversion started ends in
\* exactly one of _on_finished (status Done) and _on_error (status Error),
\* which enables the button and clears thread and worker; a start rejected
\* by the tests of the input leaves the button enabled and starts no worker.
C16_EveryConversionEnds ==
  /\ [](C16_OneInFlight)
  /\ [][C16_Step]_vars
  /\ (InFlight ~> ~InFlight)

\* C16, amended: as stated, but a conversion started ends in exactly one of
\* _on_finished and _on_error if the window stays open until then; when the
\* window is closed while a conversion is in flight neither slot runs, the
\* button stays disabled and thread and worker stay set.
C16_OneConversionAtATime ==
  /\ [](C16_OneInFlight)
  /\ [][C16_Step]_vars
  /\ (InFlight ~> (~InFlight \/ window = "closed"))
  /\ [][(window = "closed") => (window' = "closed" /\ gui' = gui)]_vars

\* a session in which a start was rejected, one conversion ended as Done
\* and one as Error, and the button is enabled again
C16_Witness ==
  /\ runs.finished = 1
  /\ runs.failed = 1
  /\ warning # "none"
  /\ ~InFlight
  /\ start_button
  /\ status_label = "Error"
  /\ window = "open"
  /\ <<input_edit, output_edit>> # <<KeepDir, OutDir>>

====
